---- MODULE Spec2Model ----
(***************************************************************************)
(* The wallet wrapper of ledgertrack: the HTTP handlers of the v2 API      *)
(* (createWallet, creditWallet, debitWallet, lienWallet, releaseLien,      *)
(* createChannel, creditChannel) over the ledger engine.                   *)
(*                                                                         *)
(* A string the code takes apart or builds (a walletID, an account         *)
(* address, a ledger name, an asset) is a sequence of tokens; fmt.Sprintf  *)
(* is concatenation and strings.LastIndex a search in the sequence.        *)
(* A string the code only compares (a reference, an Idempotency-Key, a     *)
(* channelID, a mode) is a TLA+ string, "" being Go's empty string.        *)
(***************************************************************************)
EXTENDS Integers, Sequences, FiniteSets, TLC

VARIABLES
    ledgers,    \* ledger name -> the sequence of its committed transactions
    created,    \* the ledgers that exist in the engine
    inflight,   \* multi-ledger requests between two of their legs
    log         \* the responses sent so far, in order

vars == <<ledgers, created, inflight, log>>

(***************************************************************************)
(* Bounds of the model.                                                    *)
(***************************************************************************)
\* requests issued in one behaviour
MaxOps == 3
\* amounts are drawn from 1..MaxAmount
MaxAmount == 2
\* references are drawn from the first MaxRefs entries of RefPool
MaxRefs == 3

\* repeats of one request in SpecIdem, after the funding credit
MaxRepeats == 2
\* references of SpecIdem
MaxIdemRefs == 2
\* debits of SpecDrain, and the balance the wallet is funded with
MaxDebits == 3
MaxBalance == 4
\* failures of the engine between the legs of the retried debit of SpecRetry
MaxFailures == 2
\* requests of SpecValidation
MaxValidationOps == 1
\* requests of SpecWalletID
MaxWalletOps == 3
\* transactions and reads of SpecPages
MaxPageTxs == 101
MaxPageReads == 2
\* requests that write and reads of SpecRead
MaxReadTxs == 3
MaxReads == 2
MaxChannelOps == 5
MaxFrameOps == 5

RefPool == <<"r1", "r2", "r3", "r4", "r5", "r6">>

(***************************************************************************)
(* Strings.                                                                *)
(***************************************************************************)
\* strings.LastIndex(s, sep): the last position of sep in s, counted from 1;
\* 0 where Go returns -1.
LastIndex(s, sep) ==
    LET hits == {i \in 1..Len(s) : s[i] = sep}
    IN  IF hits = {} THEN 0 ELSE CHOOSE i \in hits : \A j \in hits : j <= i

\* (variant of ParseWalletID that splits at the first dash)
ParseWalletIDSkipFirstDash(walletID) ==
    LET hits == {i \in 1..Len(walletID) : walletID[i] = "-"}
        firstDash == IF hits = {} THEN 0
                     ELSE CHOOSE i \in hits : \A j \in hits : i <= j
    IN  [ok       |-> firstDash # 0,
         userID   |-> SubSeq(walletID, 1, firstDash - 1),
         currency |-> SubSeq(walletID, firstDash + 1, Len(walletID))]

\* lastDash := strings.LastIndex(walletID, "-");
\* userID := walletID[:lastDash]; currency := walletID[lastDash+1:]
ParseWalletID(walletID) ==
    LET lastDash == LastIndex(walletID, "-")
    IN  [ok       |-> lastDash # 0,
         userID   |-> SubSeq(walletID, 1, lastDash - 1),
         currency |-> SubSeq(walletID, lastDash + 1, Len(walletID))]

\* fmt.Sprintf("%s-%s", userID, currency)
WalletID(userID, currency) == userID \o <<"-">> \o currency

\* fmt.Sprintf("users:%s:wallets:%s:available", userID, currency)
AvailableAccount(userID, currency) ==
    <<"users", ":">> \o userID \o <<":", "wallets", ":">> \o currency
        \o <<":", "available">>

\* fmt.Sprintf("users:%s:wallets:%s:lien", userID, currency)
LienAccount(userID, currency) ==
    <<"users", ":">> \o userID \o <<":", "wallets", ":">> \o currency
        \o <<":", "lien">>

\* (variant of SystemAccount that is one account for all currencies)
SystemAccountShared(currency) == <<"system", ":", "control">>

\* fmt.Sprintf("system:control:%s", currency)
SystemAccount(currency) == <<"system", ":", "control", ":">> \o currency

\* fmt.Sprintf("channel:%s", channelID)
ChannelAccount(channelID) == <<"channel", ":", channelID>>

RevenueAccount == <<"revenue", ":", "accumulated">>

World == <<"world">>

\* the asset of every script: "%s/2"
Asset(currency) == currency \o <<"/", "2">>

\* fmt.Sprintf("channels-%s", currency), fmt.Sprintf("revenue-%s", currency)
ChannelLedgerName(currency) == <<"channels", "-">> \o currency

RevenueLedgerName(currency) == <<"revenue", "-">> \o currency

\* the ledger of the request's URL, common.LedgerFromContext
UserLedger == <<"ledgertrack">>

(***************************************************************************)
(* The currency registry.                                                  *)
(***************************************************************************)
currencyRegistry ==
    [c \in {<<"USD">>, <<"EUR">>, <<"BTC">>, <<"NGN">>, <<"GHS">>, <<"KES">>,
            <<"ZMW">>} |->
        [Precision |-> IF c = <<"BTC">> THEN 8 ELSE 2, Enabled |-> TRUE]]

(***************************************************************************)
(* The ledger engine (the Formance core the wrapper calls).  A script is   *)
(* the one send statement the handlers emit:                               *)
(*   [asset, amount, source, overdraft, destination].                      *)
(* A transaction is [id, reference, ik, script].                           *)
(***************************************************************************)
RECURSIVE Balance(_, _, _)
\* the balance of account in asset after the transactions txs
Balance(txs, account, asset) ==
    IF txs = <<>> THEN 0
    ELSE LET s == txs[Len(txs)].script
             d == IF s.asset # asset THEN 0
                  ELSE (IF s.destination = account THEN s.amount ELSE 0)
                       - (IF s.source = account THEN s.amount ELSE 0)
         IN  Balance(SubSeq(txs, 1, Len(txs) - 1), account, asset) + d

\* transaction.postCommitVolumes[account][asset].balance of transaction id
PostCommitBalance(txs, id, account, asset) ==
    Balance(SubSeq(txs, 1, id), account, asset)

\* the script run on the ledger: the funds of a source that may not overdraw,
\* then the commit under the next transaction id
Execute(txs, params) ==
    LET script == params.Script
    IN  IF /\ ~script.overdraft
           /\ script.source # World
           /\ Balance(txs, script.source, script.asset) < script.amount
        THEN [err |-> "INSUFFICIENT_FUND", tx |-> <<>>, txs |-> txs]
        ELSE LET tx == [id |-> Len(txs) + 1, reference |-> params.Reference,
                        ik |-> params.IdempotencyKey, script |-> script]
             IN  [err |-> "", tx |-> tx, txs |-> Append(txs, tx)]

\* (variant of CreateTransaction without the two idempotency layers)
CreateTransactionUnchecked(txs, params) == Execute(txs, params)

\* l.CreateTransaction(ctx, params), params being [IdempotencyKey, Script,
\* Reference] (ledger.Parameters[ledger.CreateTransaction]):
\* the Idempotency-Key layer, then the reference layer, then the funds of the
\* source, then the commit.
CreateTransaction(txs, params) ==
    LET script == params.Script
        reference == params.Reference
        ik == params.IdempotencyKey
        byKey == {i \in 1..Len(txs) : ik # "" /\ txs[i].ik = ik}
        byRef == {i \in 1..Len(txs) :
                    reference # "" /\ txs[i].reference = reference}
        kept(e, t) == [err |-> e, tx |-> t, txs |-> txs]
    IN  IF byKey # {}
        THEN LET t == txs[CHOOSE i \in byKey : TRUE]
             IN  IF t.script = script /\ t.reference = reference
                 THEN kept("", t)
                 ELSE kept("IDEMPOTENCY_KEY_CONFLICT", <<>>)
        ELSE IF byRef # {}
        THEN LET t == txs[CHOOSE i \in byRef : TRUE]
             IN  IF t.script = script
                 THEN kept("", t)
                 ELSE kept("REFERENCE_CONFLICT", <<>>)
        ELSE Execute(txs, params)

\* common.HandleCommonWriteErrors: the status and error code of an engine error
HandleCommonWriteErrors(err) ==
    CASE err = "INSUFFICIENT_FUND"        -> [status |-> 400, code |-> err]
      [] err = "REFERENCE_CONFLICT"       -> [status |-> 409, code |-> err]
      [] err = "IDEMPOTENCY_KEY_CONFLICT" -> [status |-> 409, code |-> err]
      [] err = "NOT_FOUND"                -> [status |-> 404, code |-> err]
      [] err = "TRANSIENT"                -> [status |-> 503, code |-> err]
      [] OTHER                            -> [status |-> 500, code |-> "FATAL"]

(***************************************************************************)
(* Responses.  A response is logged with the request it answers.           *)
(***************************************************************************)
NoIDs == [txid |-> 0, channelTxID |-> 0, revenueTxID |-> 0, warning |-> ""]

\* api.BadRequest(w, common.ErrValidation, ...)
BadRequest == [status |-> 400, code |-> "VALIDATION"] @@ NoIDs

\* common.HandleCommonWriteErrors(w, r, err)
WriteError(err) == HandleCommonWriteErrors(err) @@ NoIDs

\* api.Created(w, ...)
Created(txid, channelTxID, revenueTxID, warning) ==
    [status |-> 201, code |-> "", txid |-> txid, channelTxID |-> channelTxID,
     revenueTxID |-> revenueTxID, warning |-> warning]

Respond(op, target, req, ik, out) ==
    log' = Append(log, [op |-> op, target |-> target, req |-> req, ik |-> ik]
                       @@ out)

\* a request body: WalletTransactionRequest, ReleaseLienRequest,
\* CreditChannelRequest, CreateChannelRequest (fields a type lacks are zero)
Request(amount, reference, channelID, channelAmount, mode, currency) ==
    [amount |-> amount, reference |-> reference, channelID |-> channelID,
     channelAmount |-> channelAmount, mode |-> mode, currency |-> currency]

\* the requests issued so far
Issued == Len(log) + Len(inflight)

RemoveAt(s, i) == SubSeq(s, 1, i - 1) \o SubSeq(s, i + 1, Len(s))

Commit(name, txs) == ledgers' = [ledgers EXCEPT ![name] = txs]

(***************************************************************************)
(* The scripts of the handlers.                                            *)
(***************************************************************************)
Send(asset, amount, source, overdraft, destination) ==
    [asset |-> asset, amount |-> amount, source |-> source,
     overdraft |-> overdraft, destination |-> destination]

\* (variant of creditScript without "allowing unbounded overdraft")
creditScriptBounded(currency, amount, accountSystem, accountUser) ==
    Send(Asset(currency), amount, accountSystem, FALSE, accountUser)

\* creditWallet: system:control -> available, allowing unbounded overdraft
creditScript(currency, amount, accountSystem, accountUser) ==
    Send(Asset(currency), amount, accountSystem, TRUE, accountUser)

\* (variant of debitScript with credit's "allowing unbounded overdraft")
debitScriptOverdraft(currency, amount, accountUser, accountSystem) ==
    Send(Asset(currency), amount, accountUser, TRUE, accountSystem)

\* (variant of debitScript whose source is the wallet's lien account)
debitScriptFromLien(currency, amount, accountUser, accountSystem) ==
    Send(Asset(currency), amount,
         SubSeq(accountUser, 1, Len(accountUser) - 1) \o <<"lien">>, FALSE,
         accountSystem)

\* debitWallet: available -> system:control
debitScript(currency, amount, accountUser, accountSystem) ==
    Send(Asset(currency), amount, accountUser, FALSE, accountSystem)

\* (variant of lienScript with credit's "allowing unbounded overdraft")
lienScriptOverdraft(currency, amount, accountAvailable, accountLien) ==
    Send(Asset(currency), amount, accountAvailable, TRUE, accountLien)

\* lienWallet: available -> lien
lienScript(currency, amount, accountAvailable, accountLien) ==
    Send(Asset(currency), amount, accountAvailable, FALSE, accountLien)

\* (variant of releaseScript that pays out on "pay" in lower case as well)
releaseScriptAnyCase(mode, currency, amount, accountLien, accountAvailable) ==
    IF mode \in {"PAY", "pay"}
    THEN Send(Asset(currency), amount, accountLien, FALSE, World)
    ELSE Send(Asset(currency), amount, accountLien, FALSE, accountAvailable)

\* (variant of releaseScript that gives back to the wallet whatever the mode)
releaseScriptNeverPay(mode, currency, amount, accountLien, accountAvailable) ==
    Send(Asset(currency), amount, accountLien, FALSE, accountAvailable)

\* (variant of releaseScript that pays out whatever the mode)
releaseScriptAlwaysPay(mode, currency, amount, accountLien, accountAvailable) ==
    Send(Asset(currency), amount, accountLien, FALSE, World)

\* releaseLien: lien -> world when Mode is "PAY", lien -> available otherwise
releaseScript(mode, currency, amount, accountLien, accountAvailable) ==
    IF mode = "PAY"
    THEN Send(Asset(currency), amount, accountLien, FALSE, World)
    ELSE Send(Asset(currency), amount, accountLien, FALSE, accountAvailable)

\* (variant of channelScript without "allowing unbounded overdraft")
channelScriptBounded(currency, channelAmount, channelAccount) ==
    Send(Asset(currency), channelAmount, channelAccount, FALSE, World)

\* the channel leg: channel:{id} -> world, allowing unbounded overdraft
channelScript(currency, channelAmount, channelAccount) ==
    Send(Asset(currency), channelAmount, channelAccount, TRUE, World)

\* the revenue leg: world -> revenue:accumulated
revenueScript(currency, revenue) ==
    Send(Asset(currency), revenue, World, FALSE, RevenueAccount)

\* creditChannel: world -> channel:{id}
creditChannelScript(currency, amount, accountName) ==
    Send(Asset(currency), amount, World, FALSE, accountName)

(***************************************************************************)
(* The parameters the handlers hand to CreateTransaction.                  *)
(***************************************************************************)
Parameters(ik, script, reference) ==
    [IdempotencyKey |-> ik, Script |-> script, Reference |-> reference]

\* (variant of creditParams that leaves IdempotencyKey and Reference unset)
creditParamsUnset(ik, script, reference) == Parameters("", script, "")

\* creditWallet: the Idempotency-Key header and req.Reference
creditParams(ik, script, reference) == Parameters(ik, script, reference)

\* (variant of debitParams that leaves IdempotencyKey and Reference unset)
debitParamsUnset(ik, script, reference) == Parameters("", script, "")

\* debitWallet: the Idempotency-Key header and req.Reference
debitParams(ik, script, reference) == Parameters(ik, script, reference)

\* lienWallet: the Idempotency-Key header and req.Reference
lienParams(ik, script, reference) == Parameters(ik, script, reference)

\* (variant of releaseParams that leaves IdempotencyKey and Reference unset)
releaseParamsUnset(ik, script, reference) == Parameters("", script, "")

\* releaseLien: the Idempotency-Key header and req.Reference
releaseParams(ik, script, reference) == Parameters(ik, script, reference)

\* (variant of channelParams that leaves Reference unset)
channelParamsUnset(script, reference) == Parameters("", script, "")

\* the channel leg: req.Reference, no IdempotencyKey
channelParams(script, reference) == Parameters("", script, reference)

\* (variant of revenueParams that leaves Reference unset)
revenueParamsUnset(script, reference) == Parameters("", script, "")

\* the revenue leg: req.Reference, no IdempotencyKey
revenueParams(script, reference) == Parameters("", script, reference)

\* creditChannel: req.Reference, no IdempotencyKey
creditChannelParams(script, reference) == Parameters("", script, reference)

(***************************************************************************)
(* Validation.                                                             *)
(***************************************************************************)
\* (variant of ValidTransactionRequest without the check of Amount)
ValidTransactionRequestAnyAmount(walletID, req) ==
    /\ ParseWalletID(walletID).ok
    /\ ~(req.reference = "")

\* creditWallet, debitWallet, lienWallet: walletID, Amount, Reference
ValidTransactionRequest(walletID, req) ==
    /\ ParseWalletID(walletID).ok
    /\ ~(req.amount <= 0)
    /\ ~(req.reference = "")

\* releaseLien: walletID, Reference, Amount
ValidReleaseRequest(walletID, req) ==
    /\ ParseWalletID(walletID).ok
    /\ ~(req.reference = "")
    /\ ~(req.amount <= 0)

\* (variant of ValidChannelRequest without the check against Amount)
ValidChannelRequestAnyPart(req) ==
    req.channelID # "" => ~(req.channelAmount <= 0)

\* "Validation for Multi-Ledger Logic" of debitWallet and releaseLien
ValidChannelRequest(req) ==
    req.channelID # "" =>
        /\ ~(req.channelAmount <= 0)
        /\ ~(req.channelAmount > req.amount)

(***************************************************************************)
(* creditWallet, lienWallet: one posting on the user ledger.               *)
(***************************************************************************)
creditWallet(walletID, req, ik) ==
    LET p == ParseWalletID(walletID)
        accountUser == AvailableAccount(p.userID, p.currency)
        accountSystem == SystemAccount(p.currency)
        script == creditScript(p.currency, req.amount, accountSystem, accountUser)
        r == CreateTransaction(ledgers[UserLedger],
                               creditParams(ik, script, req.reference))
    IN  /\ UNCHANGED <<created, inflight>>
        /\ IF ~ValidTransactionRequest(walletID, req)
           THEN /\ Respond("credit", walletID, req, ik, BadRequest)
                /\ UNCHANGED ledgers
           ELSE IF r.err # ""
           THEN /\ Respond("credit", walletID, req, ik, WriteError(r.err))
                /\ UNCHANGED ledgers
           ELSE /\ Commit(UserLedger, r.txs)
                /\ Respond("credit", walletID, req, ik, Created(r.tx.id, 0, 0, ""))

lienWallet(walletID, req, ik) ==
    LET p == ParseWalletID(walletID)
        accountAvailable == AvailableAccount(p.userID, p.currency)
        accountLien == LienAccount(p.userID, p.currency)
        script == lienScript(p.currency, req.amount, accountAvailable, accountLien)
        r == CreateTransaction(ledgers[UserLedger],
                               lienParams(ik, script, req.reference))
    IN  /\ UNCHANGED <<created, inflight>>
        /\ IF ~ValidTransactionRequest(walletID, req)
           THEN /\ Respond("lien", walletID, req, ik, BadRequest)
                /\ UNCHANGED ledgers
           ELSE IF r.err # ""
           THEN /\ Respond("lien", walletID, req, ik, WriteError(r.err))
                /\ UNCHANGED ledgers
           ELSE /\ Commit(UserLedger, r.txs)
                /\ Respond("lien", walletID, req, ik, Created(r.tx.id, 0, 0, ""))

(***************************************************************************)
(* debitWallet and releaseLien: the posting on the user ledger, then, when *)
(* ChannelID is set, the channel leg and the revenue leg, each its own     *)
(* call of the engine.  A request between two legs is in inflight:         *)
(*   [op, walletID, req, ik, currency, txid, pc, channelTxID, warning].    *)
(***************************************************************************)
\* (variant of Pending that goes on with the revenue leg)
PendingAtRevenue(op, walletID, req, ik, currency, txid) ==
    [op |-> op, walletID |-> walletID, req |-> req, ik |-> ik,
     currency |-> currency, txid |-> txid, pc |-> "revenue",
     channelTxID |-> 0, warning |-> ""]

Pending(op, walletID, req, ik, currency, txid) ==
    [op |-> op, walletID |-> walletID, req |-> req, ik |-> ik,
     currency |-> currency, txid |-> txid, pc |-> "channel",
     channelTxID |-> 0, warning |-> ""]

debitWallet(walletID, req, ik) ==
    LET p == ParseWalletID(walletID)
        accountUser == AvailableAccount(p.userID, p.currency)
        accountSystem == SystemAccount(p.currency)
        script == debitScript(p.currency, req.amount, accountUser, accountSystem)
        r == CreateTransaction(ledgers[UserLedger],
                               debitParams(ik, script, req.reference))
    IN  /\ UNCHANGED created
        /\ IF ~ValidTransactionRequest(walletID, req) \/ ~ValidChannelRequest(req)
           THEN /\ Respond("debit", walletID, req, ik, BadRequest)
                /\ UNCHANGED <<ledgers, inflight>>
           ELSE IF r.err # ""
           THEN /\ Respond("debit", walletID, req, ik, WriteError(r.err))
                /\ UNCHANGED <<ledgers, inflight>>
           ELSE IF req.channelID # ""
           THEN /\ Commit(UserLedger, r.txs)
                /\ inflight' = Append(inflight,
                       Pending("debit", walletID, req, ik, p.currency, r.tx.id))
                /\ UNCHANGED log
           ELSE /\ Commit(UserLedger, r.txs)
                /\ Respond("debit", walletID, req, ik, Created(r.tx.id, 0, 0, ""))
                /\ UNCHANGED inflight

releaseLien(walletID, req, ik) ==
    LET p == ParseWalletID(walletID)
        accountLien == LienAccount(p.userID, p.currency)
        accountAvailable == AvailableAccount(p.userID, p.currency)
        script == releaseScript(req.mode, p.currency, req.amount, accountLien,
                                accountAvailable)
        r == CreateTransaction(ledgers[UserLedger],
                               releaseParams(ik, script, req.reference))
    IN  /\ UNCHANGED created
        /\ IF ~ValidReleaseRequest(walletID, req) \/ ~ValidChannelRequest(req)
           THEN /\ Respond("release", walletID, req, ik, BadRequest)
                /\ UNCHANGED <<ledgers, inflight>>
           ELSE IF r.err # ""
           THEN /\ Respond("release", walletID, req, ik, WriteError(r.err))
                /\ UNCHANGED <<ledgers, inflight>>
           ELSE IF req.channelID # ""
           THEN /\ Commit(UserLedger, r.txs)
                /\ inflight' = Append(inflight,
                       Pending("release", walletID, req, ik, p.currency, r.tx.id))
                /\ UNCHANGED log
           ELSE /\ Commit(UserLedger, r.txs)
                /\ Respond("release", walletID, req, ik, Created(r.tx.id, 0, 0, ""))
                /\ UNCHANGED inflight

\* debitWallet's warningMsg from the channel's post-commit balance
debitWarning(balance) ==
    IF balance < 0 THEN "Channel balance is negative" ELSE "Channel balance"

\* releaseLien's warningMsg from the channel's post-commit balance
releaseWarning(balance) ==
    IF balance < 0 THEN "Channel balance is negative" ELSE ""

\* the request leaves inflight with the response out
Finish(i, out) ==
    LET f == inflight[i]
    IN  /\ Respond(f.op, f.walletID, f.req, f.ik, out)
        /\ inflight' = RemoveAt(inflight, i)

\* (variant of returnError that first posts the reverse of the user leg)
returnErrorReversing(i, err) ==
    LET t == ledgers[UserLedger][inflight[i].txid]
        back == Send(t.script.asset, t.script.amount, t.script.destination, TRUE,
                     t.script.source)
    IN  /\ Finish(i, WriteError(err))
        /\ Commit(UserLedger,
                  Execute(ledgers[UserLedger], Parameters("", back, "")).txs)

\* a leg fails after the user leg committed: common.HandleCommonWriteErrors
\* and return, no call of the engine in between
returnError(i, err) ==
    /\ Finish(i, WriteError(err))
    /\ UNCHANGED ledgers

\* (variant of channelLeg that goes on to the revenue leg whatever the revenue)
channelLegThenRevenue(i, op) ==
    LET f == inflight[i]
        channelLedgerName == ChannelLedgerName(f.currency)
        channelAccount == ChannelAccount(f.req.channelID)
        script == channelScript(f.currency, f.req.channelAmount, channelAccount)
        r == CreateTransaction(ledgers[channelLedgerName],
                               channelParams(script, f.req.reference))
        balance == PostCommitBalance(r.txs, r.tx.id, channelAccount,
                                     Asset(f.currency))
        warningMsg == IF op = "debit" THEN debitWarning(balance)
                      ELSE releaseWarning(balance)
        revenue == f.req.amount - f.req.channelAmount
    IN  /\ f.op = op
        /\ f.pc = "channel"
        /\ UNCHANGED created
        /\ IF channelLedgerName \notin created
           THEN returnError(i, "NOT_FOUND")
           ELSE IF r.err # ""
           THEN returnError(i, r.err)
           ELSE IF revenue >= 0
           THEN /\ Commit(channelLedgerName, r.txs)
                /\ inflight' = [inflight EXCEPT ![i] =
                       [f EXCEPT !.pc = "revenue", !.channelTxID = r.tx.id,
                                 !.warning = warningMsg]]
                /\ UNCHANGED log
           ELSE /\ Commit(channelLedgerName, r.txs)
                /\ Finish(i, Created(f.txid, r.tx.id, 0, warningMsg))

\* the channel leg of the in-flight request i: sys.GetLedgerController of
\* channels-{currency}, the posting with the request's reference and no
\* Idempotency-Key, the warning, then the revenue leg when revenue > 0
channelLeg(i, op) ==
    LET f == inflight[i]
        channelLedgerName == ChannelLedgerName(f.currency)
        channelAccount == ChannelAccount(f.req.channelID)
        script == channelScript(f.currency, f.req.channelAmount, channelAccount)
        r == CreateTransaction(ledgers[channelLedgerName],
                               channelParams(script, f.req.reference))
        balance == PostCommitBalance(r.txs, r.tx.id, channelAccount,
                                     Asset(f.currency))
        warningMsg == IF op = "debit" THEN debitWarning(balance)
                      ELSE releaseWarning(balance)
        revenue == f.req.amount - f.req.channelAmount
    IN  /\ f.op = op
        /\ f.pc = "channel"
        /\ UNCHANGED created
        /\ IF channelLedgerName \notin created
           THEN returnError(i, "NOT_FOUND")
           ELSE IF r.err # ""
           THEN returnError(i, r.err)
           ELSE IF revenue > 0
           THEN /\ Commit(channelLedgerName, r.txs)
                /\ inflight' = [inflight EXCEPT ![i] =
                       [f EXCEPT !.pc = "revenue", !.channelTxID = r.tx.id,
                                 !.warning = warningMsg]]
                /\ UNCHANGED log
           ELSE /\ Commit(channelLedgerName, r.txs)
                /\ Finish(i, Created(f.txid, r.tx.id, 0, warningMsg))

\* the revenue leg of the in-flight request i: sys.GetLedgerController of
\* revenue-{currency}, the posting of Amount - ChannelAmount
revenueLeg(i, op) ==
    LET f == inflight[i]
        revenueLedgerName == RevenueLedgerName(f.currency)
        revenue == f.req.amount - f.req.channelAmount
        script == revenueScript(f.currency, revenue)
        r == CreateTransaction(ledgers[revenueLedgerName],
                               revenueParams(script, f.req.reference))
    IN  /\ f.op = op
        /\ f.pc = "revenue"
        /\ UNCHANGED created
        /\ IF revenueLedgerName \notin created
           THEN returnError(i, "NOT_FOUND")
           ELSE IF r.err # ""
           THEN returnError(i, r.err)
           ELSE /\ Commit(revenueLedgerName, r.txs)
                /\ Finish(i, Created(f.txid, f.channelTxID, r.tx.id, f.warning))

debitChannelLeg(i) == channelLeg(i, "debit")

debitRevenueLeg(i) == revenueLeg(i, "debit")

releaseChannelLeg(i) == channelLeg(i, "release")

releaseRevenueLeg(i) == revenueLeg(i, "release")

\* the request's context is cancelled, or the engine is unavailable, between
\* two legs: the next call of the engine fails and the handler returns
legFails(i) ==
    /\ returnError(i, "TRANSIENT")
    /\ UNCHANGED created

(***************************************************************************)
(* Channels and ledgers.                                                   *)
(***************************************************************************)
\* createChannel: the channel's ledger is created when missing; channelID is
\* the uuid drawn
createChannel(channelID, req) ==
    LET ledgerName == ChannelLedgerName(req.currency)
    IN  /\ UNCHANGED <<ledgers, inflight>>
        /\ IF req.currency = <<>>
           THEN /\ Respond("createChannel", channelID, req, "", BadRequest)
                /\ UNCHANGED created
           ELSE /\ created' = created \cup {ledgerName}
                /\ Respond("createChannel", channelID, req, "",
                           Created(0, 0, 0, ""))

creditChannel(channelID, req) ==
    LET ledgerName == ChannelLedgerName(req.currency)
        accountName == ChannelAccount(channelID)
        script == creditChannelScript(req.currency, req.amount, accountName)
        r == CreateTransaction(ledgers[ledgerName],
                               creditChannelParams(script, req.reference))
    IN  /\ UNCHANGED <<created, inflight>>
        /\ IF req.currency = <<>> \/ req.amount <= 0
           THEN /\ Respond("creditChannel", channelID, req, "", BadRequest)
                /\ UNCHANGED ledgers
           ELSE IF ledgerName \notin created
           THEN /\ Respond("creditChannel", channelID, req, "",
                           WriteError("NOT_FOUND"))
                /\ UNCHANGED ledgers
           ELSE IF r.err # ""
           THEN /\ Respond("creditChannel", channelID, req, "", WriteError(r.err))
                /\ UNCHANGED ledgers
           ELSE /\ Commit(ledgerName, r.txs)
                /\ Respond("creditChannel", channelID, req, "",
                           Created(r.tx.id, 0, 0, ""))

(***************************************************************************)
(* createWallet: derives the walletID; no call of the engine.              *)
(***************************************************************************)
\* the body of a createWallet: CreateWalletRequest
CreateWalletRequest(userID, currency) ==
    Request(0, "", "", 0, "", currency) @@ [userID |-> userID]

\* (variant of createWallet without the lookup in the registry)
createWalletAnyCurrency(userID, currency) ==
    LET req == CreateWalletRequest(userID, currency)
    IN  /\ UNCHANGED <<ledgers, created, inflight>>
        /\ IF userID = <<>> \/ currency = <<>>
           THEN Respond("createWallet", <<>>, req, "", BadRequest)
           ELSE Respond("createWallet", <<>>, req, "",
                        Created(0, 0, 0, "")
                            @@ [walletID |-> WalletID(userID, currency),
                                userID |-> userID, currency |-> currency])

createWallet(userID, currency) ==
    LET req == CreateWalletRequest(userID, currency)
    IN  /\ UNCHANGED <<ledgers, created, inflight>>
        /\ IF userID = <<>> \/ currency = <<>>
           THEN Respond("createWallet", <<>>, req, "", BadRequest)
           ELSE IF \/ currency \notin DOMAIN currencyRegistry
                   \/ ~currencyRegistry[currency].Enabled
           THEN Respond("createWallet", <<>>, req, "", BadRequest)
           ELSE Respond("createWallet", <<>>, req, "",
                        Created(0, 0, 0, "")
                            @@ [walletID |-> WalletID(userID, currency),
                                userID |-> userID, currency |-> currency])

(***************************************************************************)
(* getWalletHistory, getWalletStatement: pages of the transactions of the  *)
(* wallet's two accounts.  A query is                                      *)
(*   [reference, startTime, endTime, cursor, pageSize]                     *)
(* with "" or 0 for a parameter the URL lacks; a cursor is                 *)
(*   [id, bound]: the last transaction id seen and the newest id of the    *)
(* ledger when the first page was read.  The engine stamps a transaction   *)
(* with the time of its commit, which is counted in commits.               *)
(***************************************************************************)
DefaultPageSize == 15

MaxPageSize == 100

NoCursor == [id |-> 0, bound |-> 0]

Query(reference, startTime, endTime, cursor, pageSize) ==
    [reference |-> reference, startTime |-> startTime, endTime |-> endTime,
     cursor |-> cursor, pageSize |-> pageSize]

Timestamp(tx) == tx.id

\* (variant of PageSize without the maximum)
PageSizeUnbounded(requested) ==
    IF requested = 0 THEN DefaultPageSize ELSE requested

\* getPaginatedQuery: the pageSize of the URL under PaginationConfig
PageSize(requested) ==
    IF requested = 0 THEN DefaultPageSize
    ELSE IF requested > MaxPageSize THEN MaxPageSize
    ELSE requested

\* query.Match("account", accounts) and the optional filters
Matches(tx, accounts, q) ==
    /\ tx.script.source \in accounts \/ tx.script.destination \in accounts
    /\ q.reference # "" => tx.reference = q.reference
    /\ q.startTime # 0 => Timestamp(tx) >= q.startTime
    /\ q.endTime # 0 => Timestamp(tx) <= q.endTime

Reverse(s) == [i \in 1..Len(s) |-> s[Len(s) + 1 - i]]

\* (variant of ListTransactions whose cursor takes the last id seen again)
ListTransactionsFromCursor(txs, accounts, q, order) ==
    LET bound == IF q.cursor = NoCursor THEN Len(txs) ELSE q.cursor.bound
        matching == SelectSeq(txs, LAMBDA tx : Matches(tx, accounts, q))
        ahead == SelectSeq(matching, LAMBDA tx :
                     /\ tx.id <= bound
                     /\ q.cursor # NoCursor =>
                            IF order = "asc" THEN tx.id >= q.cursor.id
                            ELSE tx.id <= q.cursor.id)
        ordered == IF order = "asc" THEN ahead ELSE Reverse(ahead)
        n == PageSize(q.pageSize)
        data == SubSeq(ordered, 1, IF n < Len(ordered) THEN n ELSE Len(ordered))
    IN  [data |-> data,
         next |-> IF Len(ordered) > n
                  THEN [id |-> data[Len(data)].id, bound |-> bound]
                  ELSE NoCursor]

\* l.ListTransactions(ctx, pq): the page after the cursor, in the order of
\* the transaction ids, and the cursor of the page that follows it
ListTransactions(txs, accounts, q, order) ==
    LET bound == IF q.cursor = NoCursor THEN Len(txs) ELSE q.cursor.bound
        matching == SelectSeq(txs, LAMBDA tx : Matches(tx, accounts, q))
        ahead == SelectSeq(matching, LAMBDA tx :
                     /\ tx.id <= bound
                     /\ q.cursor # NoCursor =>
                            IF order = "asc" THEN tx.id > q.cursor.id
                            ELSE tx.id < q.cursor.id)
        ordered == IF order = "asc" THEN ahead ELSE Reverse(ahead)
        n == PageSize(q.pageSize)
        data == SubSeq(ordered, 1, IF n < Len(ordered) THEN n ELSE Len(ordered))
    IN  [data |-> data,
         next |-> IF Len(ordered) > n
                  THEN [id |-> data[Len(data)].id, bound |-> bound]
                  ELSE NoCursor]

\* the operation of a posting, from its source and destination
OperationType(script) ==
    LET src == script.source
        dst == script.destination
    IN  CASE src[1] = "system" /\ dst[Len(dst)] = "available" -> "credit"
          [] src[Len(src)] = "available" /\ dst[1] = "system" -> "debit"
          [] src[Len(src)] = "available" /\ dst[Len(dst)] = "lien" -> "lien"
          [] src[Len(src)] = "lien" /\ dst[Len(dst)] = "available"
                                                             -> "release_only"
          [] src[Len(src)] = "lien" /\ dst = World -> "release_and_debit"
          [] OTHER -> ""

\* renderTransaction(r, tx): the entry of a transaction, its balances taken
\* from the volumes of the accounts of the wallet of r before and after the
\* commit (the volumes of tx are those that txs gives)
renderTransaction(txs, tx, accountAvailable, accountLien) ==
    LET asset == tx.script.asset
    IN  [ledger_tx_id |-> tx.id, timestamp |-> Timestamp(tx),
         reference |-> tx.reference,
         operation_type |-> OperationType(tx.script),
         amount |-> tx.script.amount,
         currency |-> SubSeq(asset, 1, Len(asset) - 2),
         balance_before |-> PostCommitBalance(txs, tx.id - 1, accountAvailable, asset),
         balance_after |-> PostCommitBalance(txs, tx.id, accountAvailable, asset),
         lien_before |-> PostCommitBalance(txs, tx.id - 1, accountLien, asset),
         lien_after |-> PostCommitBalance(txs, tx.id, accountLien, asset)]

\* api.RenderCursor(w, *bunpaginate.MapCursor(cursor, renderTransaction))
RenderCursor(txs, page, accountAvailable, accountLien) ==
    [status |-> 200, code |-> "",
     data |-> [i \in 1..Len(page.data) |->
                  renderTransaction(txs, page.data[i], accountAvailable,
                                    accountLien)],
     next |-> page.next] @@ NoIDs

\* the response to a read, logged with its query
Read(op, walletID, q, out) ==
    Respond(op, walletID, Request(0, "", "", 0, "", <<>>), "",
            out @@ [query |-> q, data |-> <<>>, next |-> NoCursor])

\* (variant of getWalletHistory in ascending order)
getWalletHistoryAscending(walletID, q) ==
    LET p == ParseWalletID(walletID)
        accountAvailable == AvailableAccount(p.userID, p.currency)
        accountLien == LienAccount(p.userID, p.currency)
        cursor == ListTransactions(ledgers[UserLedger],
                                   {accountAvailable, accountLien}, q, "asc")
    IN  /\ UNCHANGED <<ledgers, created, inflight>>
        /\ IF ~p.ok
           THEN Read("history", walletID, q, BadRequest)
           ELSE Read("history", walletID, q,
                     RenderCursor(ledgers[UserLedger], cursor,
                                  accountAvailable, accountLien))

getWalletHistory(walletID, q) ==
    LET p == ParseWalletID(walletID)
        accountAvailable == AvailableAccount(p.userID, p.currency)
        accountLien == LienAccount(p.userID, p.currency)
        cursor == ListTransactions(ledgers[UserLedger],
                                   {accountAvailable, accountLien}, q, "desc")
    IN  /\ UNCHANGED <<ledgers, created, inflight>>
        /\ IF ~p.ok
           THEN Read("history", walletID, q, BadRequest)
           ELSE Read("history", walletID, q,
                     RenderCursor(ledgers[UserLedger], cursor,
                                  accountAvailable, accountLien))

\* (variant of getWalletStatement in descending order)
getWalletStatementDescending(walletID, q) ==
    LET p == ParseWalletID(walletID)
        accountAvailable == AvailableAccount(p.userID, p.currency)
        accountLien == LienAccount(p.userID, p.currency)
        cursor == ListTransactions(ledgers[UserLedger],
                                   {accountAvailable, accountLien}, q, "desc")
    IN  /\ UNCHANGED <<ledgers, created, inflight>>
        /\ IF ~p.ok
           THEN Read("statement", walletID, q, BadRequest)
           ELSE Read("statement", walletID, q,
                     RenderCursor(ledgers[UserLedger], cursor,
                                  accountAvailable, accountLien))

getWalletStatement(walletID, q) ==
    LET p == ParseWalletID(walletID)
        accountAvailable == AvailableAccount(p.userID, p.currency)
        accountLien == LienAccount(p.userID, p.currency)
        cursor == ListTransactions(ledgers[UserLedger],
                                   {accountAvailable, accountLien}, q, "asc")
    IN  /\ UNCHANGED <<ledgers, created, inflight>>
        /\ IF ~p.ok
           THEN Read("statement", walletID, q, BadRequest)
           ELSE Read("statement", walletID, q,
                     RenderCursor(ledgers[UserLedger], cursor,
                                  accountAvailable, accountLien))

\* createLedger(name, config) of the engine's own API: idempotent
createLedger(name) ==
    /\ name \notin created
    /\ created' = created \cup {name}
    /\ UNCHANGED <<ledgers, inflight, log>>

(***************************************************************************)
(* The requests of the model and the specification.                        *)
(***************************************************************************)
USD == <<"USD">>

BTC == <<"BTC">>

Currencies == {USD, BTC}

Users == {<<"u1">>, <<"u", "-", "2">>}

\* the wallets the requests address
WalletIDs == {WalletID(<<"u1">>, USD)}

Amounts == 1..MaxAmount

Min(a, b) == IF a <= b THEN a ELSE b

\* the references of the requests issued so far
UsedReferences ==
    ({log[i].req.reference : i \in 1..Len(log)}
        \cup {inflight[i].req.reference : i \in 1..Len(inflight)}) \ {""}

\* the references a request may carry: one already used, or the next of
\* RefPool (references are opaque, so which new one is sent does not matter)
Offered(n) == {RefPool[i] : i \in 1..Min(n, Cardinality(UsedReferences) + 1)}

References == Offered(MaxRefs)

IdempotencyKeys == {"", "k1"}

ChannelIDs == {"c1"}

Modes == {"PAY", "RELEASE_ONLY"}

LedgerNames ==
    {UserLedger} \cup {ChannelLedgerName(c) : c \in Currencies}
                 \cup {RevenueLedgerName(c) : c \in Currencies}

\* request bodies without and with a channel
PlainRequests ==
    {Request(a, ref, "", 0, "", <<>>) : a \in Amounts, ref \in References}

\* (the channel takes a part of the amount, or all of it)
ChannelRequests ==
    {Request(MaxAmount, ref, ch, ca, "", <<>>) :
        ref \in References, ch \in ChannelIDs, ca \in Amounts}

WithMode(req, mode) == [req EXCEPT !.mode = mode]

WithCurrency(req, currency) == [req EXCEPT !.currency = currency]

Init ==
    /\ ledgers = [n \in LedgerNames |-> <<>>]
    /\ created = {UserLedger}
    /\ inflight = <<>>
    /\ log = <<>>

\* a leg of a request in flight
Legs ==
    \/ \E i \in 1..Len(inflight) : debitChannelLeg(i)
    \/ \E i \in 1..Len(inflight) : debitRevenueLeg(i)
    \/ \E i \in 1..Len(inflight) : releaseChannelLeg(i)
    \/ \E i \in 1..Len(inflight) : releaseRevenueLeg(i)
    \/ \E i \in 1..Len(inflight) : legFails(i)

\* any request on wallet u1-USD and channel c1, without Idempotency-Key
Next ==
    \/ /\ Issued < MaxOps
       /\ \/ \E w \in WalletIDs, req \in PlainRequests :
                 creditWallet(w, req, "")
          \/ \E w \in WalletIDs, req \in PlainRequests \cup ChannelRequests :
                 debitWallet(w, req, "")
          \/ \E w \in WalletIDs, req \in PlainRequests :
                 lienWallet(w, req, "")
          \/ \E w \in WalletIDs, req \in PlainRequests \cup ChannelRequests,
                mode \in Modes :
                 releaseLien(w, WithMode(req, mode), "")
          \/ \E ch \in ChannelIDs, req \in PlainRequests :
                 creditChannel(ch, WithCurrency(req, USD))
    \/ /\ ChannelLedgerName(USD) \notin created
       /\ \E ch \in ChannelIDs :
              createChannel(ch, Request(0, "", "", 0, "", USD))
    \/ createLedger(RevenueLedgerName(USD))
    \/ Legs

Spec == Init /\ [][Next]_vars

\* the wallet operations without channel and without Idempotency-Key, a lien
\* being released to the wallet
NextWallet ==
    /\ Issued < MaxOps
    /\ \/ \E w \in WalletIDs, req \in PlainRequests : creditWallet(w, req, "")
       \/ \E w \in WalletIDs, req \in PlainRequests : debitWallet(w, req, "")
       \/ \E w \in WalletIDs, req \in PlainRequests : lienWallet(w, req, "")
       \/ \E w \in WalletIDs, req \in PlainRequests :
              releaseLien(w, WithMode(req, "RELEASE_ONLY"), "")

SpecWallet == Init /\ [][NextWallet]_vars

\* credits and debits that are repeated, with and without Idempotency-Key
IdemRequests ==
    {Request(a, ref, "", 0, "", <<>>) :
        a \in Amounts, ref \in Offered(MaxIdemRefs)}

NextIdem ==
    /\ Issued < MaxRepeats + 1
    /\ \/ \E w \in WalletIDs, req \in IdemRequests, ik \in IdempotencyKeys :
              creditWallet(w, req, ik)
       \/ \E w \in WalletIDs, req \in IdemRequests, ik \in IdempotencyKeys :
              debitWallet(w, req, ik)

SpecIdem == Init /\ [][NextIdem]_vars

\* the drain of a funded wallet: one credit of the balance under reference
\* "init", then debits of one amount under pairwise distinct references
NextDrain ==
    \/ /\ log = <<>>
       /\ \E w \in WalletIDs, b \in 1..MaxBalance :
              creditWallet(w, Request(b, "init", "", 0, "", <<>>), "")
    \/ /\ log # <<>>
       /\ Len(log) < MaxDebits + 1
       /\ \E w \in WalletIDs, a \in Amounts, i \in 1..MaxDebits :
              /\ \A k \in 1..Len(log) : log[k].req.reference # RefPool[i]
              /\ Len(log) > 1 => a = log[2].req.amount
              /\ debitWallet(w, Request(a, RefPool[i], "", 0, "", <<>>), "")

SpecDrain == Init /\ [][NextDrain]_vars

\* requests of every shape on wallets of every shape: a walletID without
\* dash, a currency the registry lacks, amounts and channel amounts around 0,
\* an empty reference.  (The legs of an accepted request through a channel
\* are those of Spec and are not taken here.)
XYZ == <<"XYZ">>

AnyWalletIDs ==
    {WalletID(<<"u1">>, USD), WalletID(<<"u1">>, BTC), WalletID(<<"u1">>, XYZ),
     <<"u1USD">>}

AnyAmounts == {-1, 0, 1}

AnyChannelAmounts == {-1, 0, 1, 2}

AnyPlainRequests ==
    {Request(a, ref, "", 0, "", <<>>) :
        a \in AnyAmounts, ref \in {""} \cup Offered(MaxRefs)}

AnyRequests ==
    {Request(a, ref, ch, ca, "", <<>>) :
        a \in AnyAmounts, ref \in {""} \cup Offered(MaxRefs),
        ch \in {""} \cup ChannelIDs, ca \in AnyChannelAmounts}

NextValidation ==
    \/ /\ Issued < MaxValidationOps
       /\ \/ \E w \in AnyWalletIDs, req \in AnyPlainRequests :
                 creditWallet(w, req, "")
          \/ \E w \in AnyWalletIDs, req \in AnyRequests :
                 debitWallet(w, req, "")
          \/ \E w \in AnyWalletIDs, req \in AnyPlainRequests :
                 lienWallet(w, req, "")
          \/ \E w \in AnyWalletIDs, req \in AnyRequests :
                 releaseLien(w, WithMode(req, "RELEASE_ONLY"), "")
          \/ \E ch \in ChannelIDs, req \in AnyPlainRequests,
                c \in {USD, BTC, XYZ, <<>>} :
                 creditChannel(ch, WithCurrency(req, c))
    \/ \E ch \in ChannelIDs, c \in Currencies :
           /\ ChannelLedgerName(c) \notin created
           /\ createChannel(ch, Request(0, "", "", 0, "", c))

SpecValidation == Init /\ [][NextValidation]_vars

\* wallets created for users with and without a dash in their userID
AnyUsers == {<<>>} \cup Users

AnyCurrencies == {<<>>, USD, BTC, XYZ}

NextCreateWallet ==
    /\ Issued < MaxWalletOps
    /\ \E u \in AnyUsers, c \in AnyCurrencies : createWallet(u, c)

SpecCreateWallet == Init /\ [][NextCreateWallet]_vars

\* the operations on the walletIDs derived for such users and on walletIDs
\* without dash or with nothing before it
WalletOwners == {<<<<"u", "-", "2">>, USD>>, <<<<"u1">>, BTC>>}

DerivedWalletIDs ==
    {WalletID(o[1], o[2]) : o \in WalletOwners}
        \cup {<<"u1USD">>, <<"-", "USD">>}

WalletRequests ==
    {Request(MaxAmount, ref, "", 0, "RELEASE_ONLY", <<>>) : ref \in Offered(MaxRefs)}

NextWalletID ==
    /\ Issued < MaxWalletOps
    /\ \/ \E w \in DerivedWalletIDs, req \in WalletRequests :
              creditWallet(w, req, "")
       \/ \E w \in DerivedWalletIDs, req \in WalletRequests :
              debitWallet(w, req, "")
       \/ \E w \in DerivedWalletIDs, req \in WalletRequests :
              lienWallet(w, req, "")
       \/ \E w \in DerivedWalletIDs, req \in WalletRequests :
              releaseLien(w, req, "")

SpecWalletID == Init /\ [][NextWalletID]_vars

\* the release of a lien in every mode a client may name: the two of the
\* handler's comments and the PRD's release_and_debit
ReleaseModes == {"PAY", "RELEASE_ONLY", "release_and_debit"}

NextRelease ==
    /\ Issued < MaxOps
    /\ \/ \E w \in WalletIDs, req \in PlainRequests : creditWallet(w, req, "")
       \/ \E w \in WalletIDs, req \in PlainRequests : lienWallet(w, req, "")
       \/ \E w \in WalletIDs, req \in PlainRequests, mode \in ReleaseModes :
              releaseLien(w, WithMode(req, mode), "")

SpecRelease == Init /\ [][NextRelease]_vars

\* a debit through channel c1 under reference "d1" on a funded wallet, which
\* the client sends again, unchanged, after every failure once the channel
\* ledger and the revenue ledger exist; the engine fails between legs at most
\* MaxFailures times
RetriedDebits ==
    {Request(MaxAmount, "d1", "c1", ca, "", <<>>) : ca \in Amounts}

TransientFailures ==
    Cardinality({k \in 1..Len(log) : log[k].code = "TRANSIENT"})

\* the responses to debits, and the last of them
Debits == {k \in 1..Len(log) : log[k].op = "debit"}
LastDebit == log[CHOOSE k \in Debits : \A m \in Debits : m <= k]

\* the responses to credits
Credits == {k \in 1..Len(log) : log[k].op = "credit"}

Fund ==
    /\ Credits = {}
    /\ \E w \in WalletIDs, b \in MaxAmount..MaxBalance :
           creditWallet(w, Request(b, "init", "", 0, "", <<>>), "")

RetryDebit ==
    /\ Credits # {}
    /\ inflight = <<>>
    /\ \E w \in WalletIDs, req \in RetriedDebits :
           /\ Debits # {} =>
                  /\ LastDebit.status # 201
                  /\ LastDebit.req = req
                  /\ ChannelLedgerName(USD) \in created
                  /\ RevenueLedgerName(USD) \in created
           /\ debitWallet(w, req, "")

RetryChannelLeg == \E i \in 1..Len(inflight) : debitChannelLeg(i)

RetryRevenueLeg == \E i \in 1..Len(inflight) : debitRevenueLeg(i)

RetryLegFails ==
    /\ TransientFailures < MaxFailures
    /\ \E i \in 1..Len(inflight) : legFails(i)

ChannelCreated ==
    /\ ChannelLedgerName(USD) \notin created
    /\ \E ch \in ChannelIDs : createChannel(ch, Request(0, "", "", 0, "", USD))

RevenueCreated == createLedger(RevenueLedgerName(USD))

NextRetry ==
    \/ Fund
    \/ RetryDebit
    \/ RetryChannelLeg
    \/ RetryRevenueLeg
    \/ RetryLegFails
    \/ ChannelCreated
    \/ RevenueCreated

\* the client keeps retrying, the handler keeps running, the operator ends
\* up creating the missing ledgers
SpecRetry ==
    /\ Init /\ [][NextRetry]_vars
    /\ WF_vars(Fund) /\ WF_vars(RetryDebit)
    /\ WF_vars(RetryChannelLeg) /\ WF_vars(RetryRevenueLeg)
    /\ WF_vars(ChannelCreated) /\ WF_vars(RevenueCreated)

\* a funded wallet and requests that all carry the Idempotency-Key k1:
\* credits and debits of two references, the debits without and with channel
KeyedRequests ==
    {Request(a, ref, "", 0, "", <<>>) : a \in Amounts, ref \in {"d1", "d2"}}

KeyedChannelRequests ==
    {Request(a, ref, ch, 1, "", <<>>) :
        a \in Amounts, ref \in {"d1", "d2"}, ch \in ChannelIDs}

NextKeyed ==
    \/ Fund
    \/ /\ Credits # {}
       /\ Issued < MaxRepeats + 2
       /\ \/ \E w \in WalletIDs, req \in KeyedRequests :
                 creditWallet(w, req, "k1")
          \/ \E w \in WalletIDs, req \in KeyedRequests \cup KeyedChannelRequests :
                 debitWallet(w, req, "k1")
    \/ \E i \in 1..Len(inflight) : debitChannelLeg(i)
    \/ \E i \in 1..Len(inflight) : debitRevenueLeg(i)
    \/ ChannelCreated
    \/ RevenueCreated

SpecKeyed == Init /\ [][NextKeyed]_vars

\* the responses to reads
Reads == {k \in 1..Len(log) : log[k].op \in {"history", "statement"}}

LastRead == log[CHOOSE k \in Reads : \A m \in Reads : m <= k]

\* a wallet that is credited again and again, and then read page by page:
\* with the default page size, a small one and one above the maximum
PageSizes == {0, 2, MaxPageSize + 1}

PageWrite ==
    /\ Reads = {}
    /\ Len(ledgers[UserLedger]) < MaxPageTxs
    /\ \E w \in WalletIDs :
           creditWallet(w, Request(1, ToString(Len(ledgers[UserLedger]) + 1),
                                   "", 0, "", <<>>), "")

FirstPage ==
    /\ Reads = {}
    /\ \E w \in WalletIDs, n \in PageSizes :
           \/ getWalletHistory(w, Query("", 0, 0, NoCursor, n))
           \/ getWalletStatement(w, Query("", 0, 0, NoCursor, n))

NextPage ==
    /\ Reads # {}
    /\ Cardinality(Reads) < MaxPageReads
    /\ LastRead.next # NoCursor
    /\ LET q == [LastRead.query EXCEPT !.cursor = LastRead.next]
       IN  \/ LastRead.op = "history" /\ getWalletHistory(LastRead.target, q)
           \/ LastRead.op = "statement" /\ getWalletStatement(LastRead.target, q)

NextPages == PageWrite \/ FirstPage \/ NextPage

SpecPages == Init /\ [][NextPages]_vars

\* a wallet that is read while it is written: credits, debits and liens of
\* wallet u1-USD and credits of another wallet, each under a new reference;
\* first pages and the pages that follow a page read, any of them asked
\* any number of times
Writes == (1..Len(log)) \ Reads

OtherWallet == WalletID(<<"u", "-", "2">>, USD)

ReadWrite ==
    /\ Cardinality(Writes) < MaxReadTxs
    /\ LET reference == RefPool[Cardinality(Writes) + 1]
       IN  \/ \E w \in WalletIDs :
                  creditWallet(w, Request(MaxAmount, reference, "", 0, "", <<>>), "")
           \/ \E w \in WalletIDs :
                  debitWallet(w, Request(1, reference, "", 0, "", <<>>), "")
           \/ \E w \in WalletIDs :
                  lienWallet(w, Request(1, reference, "", 0, "", <<>>), "")
           \/ creditWallet(OtherWallet, Request(1, reference, "", 0, "", <<>>), "")

ReadFirst ==
    /\ Cardinality(Reads) < MaxReads
    /\ \E w \in WalletIDs, endTime \in {0, 2}, n \in {1, 2} :
           \/ getWalletHistory(w, Query("", 0, endTime, NoCursor, n))
           \/ getWalletStatement(w, Query("", 0, endTime, NoCursor, n))

ReadNext ==
    /\ Cardinality(Reads) < MaxReads
    /\ \E k \in Reads :
           /\ log[k].next # NoCursor
           /\ LET q == [log[k].query EXCEPT !.cursor = log[k].next]
              IN  \/ log[k].op = "history" /\ getWalletHistory(log[k].target, q)
                  \/ log[k].op = "statement"
                         /\ getWalletStatement(log[k].target, q)

NextRead == ReadWrite \/ ReadFirst \/ ReadNext

SpecRead == Init /\ [][NextRead]_vars

\* operations through channel c1, funded or not, once the channel and the
\* revenue ledger are set up: the channel is credited, the wallet credited
\* and liened, debits and releases go through the channel or not; the
\* references are all different and the engine does not fail between legs
NextChannel ==
    \/ /\ Issued < MaxChannelOps
       /\ {ChannelLedgerName(USD), RevenueLedgerName(USD)} \subseteq created
       /\ LET reference == RefPool[Issued + 1]
          IN  \/ \E w \in WalletIDs :
                     creditWallet(w, Request(MaxAmount, reference, "", 0, "", <<>>), "")
              \/ \E w \in WalletIDs :
                     lienWallet(w, Request(MaxAmount, reference, "", 0, "", <<>>), "")
              \/ \E w \in WalletIDs, ch \in {""} \cup ChannelIDs,
                    ca \in Amounts :
                     debitWallet(w, Request(MaxAmount, reference, ch,
                                            IF ch = "" THEN 0 ELSE ca, "", <<>>), "")
              \/ \E w \in WalletIDs, ch \in {""} \cup ChannelIDs,
                    ca \in Amounts, mode \in Modes :
                     releaseLien(w, Request(MaxAmount, reference, ch,
                                            IF ch = "" THEN 0 ELSE ca, mode, <<>>), "")
              \/ \E ch \in ChannelIDs, a \in Amounts :
                     creditChannel(ch, Request(a, reference, "", 0, "", USD))
    \/ /\ ChannelLedgerName(USD) \notin created
       /\ \E ch \in ChannelIDs :
              createChannel(ch, Request(0, "", "", 0, "", USD))
    \/ /\ ChannelLedgerName(USD) \in created
       /\ RevenueLedgerName(USD) \notin created
       /\ createLedger(RevenueLedgerName(USD))
    \/ \E i \in 1..Len(inflight) : debitChannelLeg(i)
    \/ \E i \in 1..Len(inflight) : debitRevenueLeg(i)
    \/ \E i \in 1..Len(inflight) : releaseChannelLeg(i)
    \/ \E i \in 1..Len(inflight) : releaseRevenueLeg(i)

SpecChannel == Init /\ [][NextChannel]_vars

\* three wallets of two users and two currencies, once the channel and
\* revenue ledgers of both currencies are set up: any wallet is credited,
\* debited, liened and released, through channel c1 or not, and the engine
\* may fail between legs; the references are all different
FrameWallets ==
    {WalletID(<<"u1">>, USD), WalletID(<<"u", "-", "2">>, USD),
     WalletID(<<"u1">>, BTC)}

FrameLedgers ==
    <<ChannelLedgerName(USD), ChannelLedgerName(BTC),
      RevenueLedgerName(USD), RevenueLedgerName(BTC)>>

FrameRequests(reference) ==
    {Request(MaxAmount, reference, "", 0, mode, <<>>) : mode \in Modes}
        \cup {Request(MaxAmount, reference, ch, ca, mode, <<>>) :
                 ch \in ChannelIDs, ca \in Amounts, mode \in Modes}

NextFrame ==
    \/ /\ Issued < MaxFrameOps
       /\ \A k \in 1..Len(FrameLedgers) : FrameLedgers[k] \in created
       /\ \E w \in FrameWallets, req \in FrameRequests(RefPool[Issued + 1]) :
              \/ req.channelID = "" /\ req.mode = "PAY"
                 /\ creditWallet(w, WithMode(req, ""), "")
              \/ req.channelID = "" /\ req.mode = "PAY"
                 /\ lienWallet(w, WithMode(req, ""), "")
              \/ req.mode = "PAY" /\ debitWallet(w, WithMode(req, ""), "")
              \/ releaseLien(w, req, "")
    \/ \E k \in 1..Len(FrameLedgers) :
           /\ \A m \in 1..k - 1 : FrameLedgers[m] \in created
           /\ FrameLedgers[k] \notin created
           /\ IF k <= 2
              THEN \E ch \in ChannelIDs :
                       createChannel(ch, Request(0, "", "", 0, "",
                                                 IF k = 1 THEN USD ELSE BTC))
              ELSE createLedger(FrameLedgers[k])
    \/ Legs

SpecFrame == Init /\ [][NextFrame]_vars

\* the release of a lien under any mode string a client may send: the exact
\* "PAY", none, lower case, and a word the handler does not know
AnyModes == {"PAY", "", "pay", "CANCEL"}

NextModes ==
    /\ Issued < MaxOps
    /\ \/ \E w \in WalletIDs, req \in PlainRequests : creditWallet(w, req, "")
       \/ \E w \in WalletIDs, req \in PlainRequests : lienWallet(w, req, "")
       \/ \E w \in WalletIDs, req \in PlainRequests, mode \in AnyModes :
              releaseLien(w, WithMode(req, mode), "")

SpecModes == Init /\ [][NextModes]_vars

(***************************************************************************)
(* Properties.  The accounts and the asset of wallet u1-USD are written    *)
(* out, so that the properties do not depend on the address builders.      *)
(***************************************************************************)
U1Wallet == <<"u1", "-", "USD">>
U1Available == <<"users", ":", "u1", ":", "wallets", ":", "USD", ":", "available">>
U1Lien == <<"users", ":", "u1", ":", "wallets", ":", "USD", ":", "lien">>
SystemUSD == <<"system", ":", "control", ":", "USD">>
USD2 == <<"USD", "/", "2">>
UserTxs == ledgers[<<"ledgertrack">>]

Available == Balance(UserTxs, U1Available, USD2)
Lien == Balance(UserTxs, U1Lien, USD2)
System == Balance(UserTxs, SystemUSD, USD2)

\* the last response, before and after a step
Last == log[Len(log)]
LastAfter == log'[Len(log')]
Answered == Len(log') = Len(log) + 1

\* no committed transaction of the user ledger carries the reference
FreshReference(reference) ==
    \A i \in 1..Len(UserTxs) : UserTxs[i].reference # reference

\* the Idempotency-Key, if any, is not the key of a transaction committed
\* under another reference
UsableKey(ik, reference) ==
    \A i \in 1..Len(UserTxs) :
        ik # "" /\ UserTxs[i].ik = ik => UserTxs[i].reference = reference

\* the accounts and assets the transactions of a ledger touch
Accounts(txs) ==
    {txs[i].script.source : i \in 1..Len(txs)}
        \cup {txs[i].script.destination : i \in 1..Len(txs)}
Assets(txs) == {txs[i].script.asset : i \in 1..Len(txs)}
IsWalletAccount(account) ==
    /\ account[1] = "users"
    /\ account[Len(account)] \in {"available", "lien"}

\* C1: in every reachable state the available balance and the lien balance of
\* every wallet are at least 0.
C1_BalancesNeverNegative ==
    \A account \in Accounts(UserTxs), asset \in Assets(UserTxs) :
        IsWalletAccount(account) => Balance(UserTxs, account, asset) >= 0

\* C1 happens: a debit beyond the available balance has been refused on a
\* wallet whose lien is positive
C1_Witness ==
    /\ Lien > 0
    /\ \E i \in 1..Len(log) :
           /\ log[i].op = "debit"
           /\ log[i].code = "INSUFFICIENT_FUND"
           /\ log[i].req.amount > Available

Carrying(reference) ==
    {i \in 1..Len(UserTxs') : UserTxs'[i].reference = reference}

\* the response i answers the same request of operation op
SameRequest(i, op, w, req) ==
    /\ log[i].op = op
    /\ log[i].target = w
    /\ log[i].req = req

\* C3: of N concurrent DebitWallet requests with the same walletId, amount,
\* reference and Idempotency-Key, the first that the engine serves on a
\* sufficient balance commits the debit once, and every other one returns
\* success with the transaction id of the first and changes no ledger: one
\* transaction carries the reference, the available balance fell by amount once.
C3_IdenticalDebitsCommitOnce ==
    [][\A w \in WalletIDs, req \in IdemRequests, ik \in IdempotencyKeys \ {""} :
          debitWallet(w, req, ik) =>
              /\ \A i \in 1..Len(log) :
                     SameRequest(i, "debit", w, req) /\ log[i].ik = ik
                         /\ log[i].status = 201
                     => /\ LastAfter.status = 201
                        /\ LastAfter.txid = log[i].txid
                        /\ ledgers' = ledgers
                        /\ Cardinality(Carrying(req.reference)) = 1
              /\ FreshReference(req.reference) /\ UsableKey(ik, req.reference)
                     /\ req.amount <= Available
                 => /\ LastAfter.status = 201
                    /\ Available' = Available - req.amount
                    /\ Cardinality(Carrying(req.reference)) = 1]_vars

\* C3 happens: the identical keyed debits that followed the funding were all
\* answered with one transaction id, and the balance is the funding less one
\* amount
C3_Witness ==
    /\ Len(log) = MaxRepeats + 1
    /\ log[1].op = "credit" /\ log[1].status = 201
    /\ \A i \in 2..Len(log) :
           /\ log[i].op = "debit" /\ log[i].ik = "k1" /\ log[i].status = 201
           /\ log[i].req = log[2].req
           /\ log[i].txid = log[2].txid
    /\ Available = log[1].req.amount - log[2].req.amount

\* C4: on a wallet funded with B, of M debits of amount A under pairwise
\* distinct references exactly min(M, B \div A) succeed, the others fail with
\* INSUFFICIENT_FUND, and the available balance is B - A * successes.
C4_DrainExact ==
    Len(log) >= 2 =>
        LET B == log[1].req.amount
            A == log[2].req.amount
            M == Len(log) - 1
            succeeded == {i \in 2..Len(log) : log[i].status = 201}
        IN  /\ log[1].status = 201
            /\ Cardinality(succeeded) = Min(M, B \div A)
            /\ \A i \in 2..Len(log) :
                   i \notin succeeded =>
                       log[i].status = 400 /\ log[i].code = "INSUFFICIENT_FUND"
            /\ Available = B - A * Cardinality(succeeded)

\* C4 happens: three debits of 2 on a wallet funded with 4, two succeeded, one
\* was refused, the wallet is empty
C4_Witness ==
    /\ Len(log) = 4
    /\ log[1].req.amount = 4
    /\ log[2].req.amount = 2
    /\ Cardinality({i \in 2..4 : log[i].status = 201}) = 2
    /\ Cardinality({i \in 2..4 : log[i].code = "INSUFFICIENT_FUND"}) = 1
    /\ Available = 0

\* C5: a CreditWallet that repeats the walletId, amount and reference of a
\* credit that committed (its Idempotency-Key, if any, not being the key of
\* another transaction) returns the transaction committed first and changes no
\* ledger: one transaction carries the reference, available rose once.
C5_CreditReplay ==
    [][\A w \in WalletIDs, req \in IdemRequests, ik \in IdempotencyKeys :
          /\ creditWallet(w, req, ik)
          /\ UsableKey(ik, req.reference)
          => \A i \in 1..Len(log) :
                 SameRequest(i, "credit", w, req) /\ log[i].status = 201
                 => /\ LastAfter.status = 201
                    /\ LastAfter.txid = log[i].txid
                    /\ ledgers' = ledgers
                    /\ Cardinality(Carrying(req.reference)) = 1]_vars

\* C5 happens: the same credit was answered every time with one transaction,
\* with and without Idempotency-Key, and the balance is one amount
C5_Witness ==
    /\ Len(log) = MaxRepeats + 1
    /\ \A i \in 1..Len(log) :
           /\ log[i].op = "credit" /\ log[i].status = 201
           /\ log[i].req = log[1].req
           /\ log[i].txid = log[1].txid
    /\ \E i, k \in 1..Len(log) : log[i].ik = "" /\ log[k].ik = "k1"
    /\ Len(UserTxs) = 1
    /\ Available = log[1].req.amount

C7_DebitBeyondAvailable ==
    [][\A w \in WalletIDs, req \in PlainRequests \cup ChannelRequests :
          /\ debitWallet(w, req, "")
          /\ FreshReference(req.reference)
          /\ req.amount > Available
          => /\ Answered
             /\ LastAfter.status = 400
             /\ LastAfter.code = "INSUFFICIENT_FUND"
             /\ ledgers' = ledgers
             /\ inflight' = inflight]_vars

\* C7 happens: a debit with channelID and channelAmount was refused while the
\* channel ledger existed, and the channel and revenue ledgers hold nothing
C7_Witness ==
    /\ <<"channels", "-", "USD">> \in created
    /\ <<"revenue", "-", "USD">> \in created
    /\ ledgers[<<"channels", "-", "USD">>] = <<>>
    /\ ledgers[<<"revenue", "-", "USD">>] = <<>>
    /\ inflight = <<>>
    /\ Last.op = "debit"
    /\ Last.req.channelID = "c1"
    /\ Last.code = "INSUFFICIENT_FUND"
    /\ Last.req.amount > Available

\* C8: a LienWallet of a new reference whose amount exceeds the available
\* balance is rejected with LIEN_EXCEEDS_AVAILABLE and leaves available and
\* lien unchanged; with amount <= available it succeeds and moves amount from
\* available to lien.
C8_LienExceedsAvailable ==
    [][\A w \in WalletIDs, req \in PlainRequests :
          /\ lienWallet(w, req, "")
          /\ FreshReference(req.reference)
          => IF req.amount > Available
             THEN /\ LastAfter.code = "LIEN_EXCEEDS_AVAILABLE"
                  /\ Available' = Available /\ Lien' = Lien
             ELSE /\ LastAfter.status = 201
                  /\ Available' = Available - req.amount
                  /\ Lien' = Lien + req.amount]_vars

\* C9: a DebitWallet of a new reference commits only if its amount is at most
\* the available balance, is answered INSUFFICIENT_FUND when the amount
\* exceeds available even if it is at most available + lien, and never
\* changes the lien balance.
C9_DebitSparesLien ==
    [][\A w \in WalletIDs, req \in PlainRequests :
          /\ debitWallet(w, req, "")
          /\ FreshReference(req.reference)
          => /\ Lien' = Lien
             /\ LastAfter.status = 201 => req.amount <= Available
             /\ req.amount > Available =>
                    /\ LastAfter.code = "INSUFFICIENT_FUND"
                    /\ Available' = Available]_vars

\* C9 happens: a debit of more than available but at most available + lien
\* was refused
C9_Witness ==
    /\ Len(log) > 0
    /\ Last.op = "debit"
    /\ Last.code = "INSUFFICIENT_FUND"
    /\ Lien > 0
    /\ Available < Last.req.amount
    /\ Last.req.amount <= Available + Lien

\* C10: a ReleaseLien of mode RELEASE_ONLY, without channelID, of amount A
\* under a new reference, served right after the LienWallet of A committed,
\* leaves available and lien equal to their values before the lien.
C10_LienRoundTrip ==
    [][\A w \in WalletIDs, req \in PlainRequests :
          /\ log # <<>>
          /\ releaseLien(w, WithMode(req, "RELEASE_ONLY"), "")
          /\ FreshReference(req.reference)
          /\ Last.op = "lien" /\ Last.target = w /\ Last.status = 201
          /\ Last.txid = Len(UserTxs)
          /\ Last.req.amount = req.amount
          => /\ LastAfter.status = 201
             /\ Available' = PostCommitBalance(UserTxs, Last.txid - 1,
                                               U1Available, USD2)
             /\ Lien' = PostCommitBalance(UserTxs, Last.txid - 1, U1Lien, USD2)]_vars

\* C10 happens: credit, lien, release of the lien's amount, and the balances
\* are those before the lien
C10_Witness ==
    /\ Len(log) = 3
    /\ log[1].op = "credit" /\ log[1].status = 201
    /\ log[2].op = "lien" /\ log[2].status = 201
    /\ log[3].op = "release" /\ log[3].status = 201
    /\ log[3].req.mode = "RELEASE_ONLY"
    /\ log[3].req.amount = log[2].req.amount
    /\ Available = log[1].req.amount
    /\ Lien = 0

WorldUSD == Balance(UserTxs, <<"world">>, USD2)

\* C11: a ReleaseLien of a new reference and of amount A at most the lien
\* balance succeeds and lowers lien by A; in mode RELEASE_ONLY available rises
\* by A, in mode PAY available is unchanged and world receives A; with A above
\* the lien balance the release fails and no balance changes.
C11_ReleaseModes ==
    [][\A w \in WalletIDs, req \in PlainRequests, mode \in {"RELEASE_ONLY", "PAY"} :
          /\ releaseLien(w, WithMode(req, mode), "")
          /\ FreshReference(req.reference)
          => IF req.amount <= Lien
             THEN /\ LastAfter.status = 201
                  /\ Lien' = Lien - req.amount
                  /\ mode = "RELEASE_ONLY" =>
                         /\ Available' = Available + req.amount
                         /\ WorldUSD' = WorldUSD
                  /\ mode = "PAY" =>
                         /\ Available' = Available
                         /\ WorldUSD' = WorldUSD + req.amount
             ELSE /\ LastAfter.status # 201
                  /\ ledgers' = ledgers]_vars

\* C11 happens: a lien was paid out: world holds the amount and available is
\* what the lien left
C11_Witness ==
    /\ Len(log) = 3
    /\ log[1].op = "credit" /\ log[1].status = 201
    /\ log[2].op = "lien" /\ log[2].status = 201
    /\ log[3].op = "release" /\ log[3].status = 201
    /\ log[3].req.mode = "PAY"
    /\ WorldUSD = log[3].req.amount
    /\ Lien = log[2].req.amount - log[3].req.amount
    /\ Available = log[1].req.amount - log[2].req.amount

\* C12: a ReleaseLien of mode release_and_debit, of a new reference and of an
\* amount at most the lien balance, lowers lien by the amount, raises
\* system:control:USD by it and leaves available unchanged.
C12_ReleaseAndDebit ==
    [][\A w \in WalletIDs, req \in PlainRequests :
          /\ releaseLien(w, WithMode(req, "release_and_debit"), "")
          /\ FreshReference(req.reference)
          /\ req.amount <= Lien
          => /\ LastAfter.status = 201
             /\ Lien' = Lien - req.amount
             /\ System' = System + req.amount
             /\ Available' = Available]_vars

ChannelTxs == ledgers[<<"channels", "-", "USD">>]
RevenueTxs == ledgers[<<"revenue", "-", "USD">>]
RevenueAccumulated == <<"revenue", ":", "accumulated">>

\* what transaction id of txs added to the balance of account
Delta(txs, id, account) ==
    PostCommitBalance(txs, id, account, USD2)
        - PostCommitBalance(txs, id - 1, account, USD2)

\* C13: a DebitWallet with channelID C, amount A and channelAmount X answered
\* 201 names a transaction of the user ledger that took A from available, a
\* transaction of channels-USD that took X from channel:C and, when A > X, a
\* transaction of revenue-USD that gave A - X to revenue:accumulated, each
\* under the request's reference.
C13_MultiLedgerDebit ==
    \A i \in 1..Len(log) :
        log[i].op = "debit" /\ log[i].status = 201 /\ log[i].req.channelID # ""
        => LET r == log[i]
               A == r.req.amount
               X == r.req.channelAmount
           IN  /\ 0 < X /\ X <= A
               /\ r.txid \in 1..Len(UserTxs)
               /\ UserTxs[r.txid].reference = r.req.reference
               /\ Delta(UserTxs, r.txid, U1Available) = -A
               /\ r.channelTxID \in 1..Len(ChannelTxs)
               /\ ChannelTxs[r.channelTxID].reference = r.req.reference
               /\ Delta(ChannelTxs, r.channelTxID,
                        <<"channel", ":", r.req.channelID>>) = -X
               /\ IF A > X
                  THEN /\ r.revenueTxID \in 1..Len(RevenueTxs)
                       /\ RevenueTxs[r.revenueTxID].reference = r.req.reference
                       /\ Delta(RevenueTxs, r.revenueTxID, RevenueAccumulated)
                              = A - X
                  ELSE r.revenueTxID = 0

\* C13 happens: a debit of 2 through channel c1 with channelAmount 1 was
\* answered 201 with the ids of its three transactions
C13_Witness ==
    \E i \in 1..Len(log) :
        /\ log[i].op = "debit" /\ log[i].status = 201
        /\ log[i].req.channelID = "c1"
        /\ log[i].req.channelAmount < log[i].req.amount
        /\ log[i].channelTxID > 0 /\ log[i].revenueTxID > 0
        /\ Balance(RevenueTxs, RevenueAccumulated, USD2)
               = log[i].req.amount - log[i].req.channelAmount
        /\ Balance(ChannelTxs, <<"channel", ":", "c1">>, USD2)
               = -log[i].req.channelAmount

\* the step answers the in-flight request i with an error
LegFailed(i) ==
    /\ inflight' = RemoveAt(inflight, i)
    /\ Answered
    /\ LastAfter.op = inflight[i].op
    /\ LastAfter.req = inflight[i].req
    /\ LastAfter.status # 201

\* the legs of the in-flight request i committed so far are on their ledgers
\* after the step
LegsKept(i) ==
    LET f == inflight[i]
    IN  /\ f.txid \in 1..Len(UserTxs')
        /\ UserTxs'[f.txid].reference = f.req.reference
        /\ f.pc = "revenue" =>
               /\ f.channelTxID \in 1..Len(ChannelTxs')
               /\ ChannelTxs'[f.channelTxID].reference = f.req.reference

\* C14: when the channel leg or the revenue leg of a DebitWallet or
\* ReleaseLien fails, or the request is cancelled between legs, no ledger
\* changes: the legs committed so far stay and no transaction is added.
C14_NoCompensation ==
    [][\A i \in 1..Len(inflight) :
          LegFailed(i) => ledgers' = ledgers /\ LegsKept(i)]_vars

\* C14 happens: a debit through channel c1 failed at its revenue leg, the
\* user leg and the channel leg are on their ledgers, the revenue ledger is
\* empty
C14_Witness ==
    /\ Len(log) > 0
    /\ Last.op = "debit" /\ Last.req.channelID = "c1"
    /\ Last.status # 201
    /\ \E k \in 1..Len(UserTxs) :
           /\ UserTxs[k].reference = Last.req.reference
           /\ UserTxs[k].script.source = U1Available
    /\ \E k \in 1..Len(ChannelTxs) :
           ChannelTxs[k].reference = Last.req.reference
    /\ RevenueTxs = <<>>

\* C15: when a later leg of a DebitWallet or ReleaseLien fails after the user
\* leg committed, the response is a PARTIAL_COMMIT error that carries the
\* transaction id of every leg committed.
C15_PartialCommit ==
    [][\A i \in 1..Len(inflight) :
          LegFailed(i) =>
              /\ LastAfter.code = "PARTIAL_COMMIT"
              /\ LastAfter.txid = inflight[i].txid
              /\ inflight[i].pc = "revenue" =>
                     LastAfter.channelTxID = inflight[i].channelTxID]_vars

\* the transactions of txs that carry the reference
WithReference(txs, reference) ==
    {k \in 1..Len(txs) : txs[k].reference = reference}

\* the last response is the failure of a debit whose user leg is committed
PartialFailure ==
    /\ Debits # {}
    /\ LastDebit.req.channelID # ""
    /\ LastDebit.status # 201
    /\ WithReference(UserTxs, LastDebit.req.reference) # {}

\* the last response is the success of a debit through a channel, and each
\* ledger holds one transaction of its reference: the user debited once, the
\* channel debited once, the revenue credited once (when there is revenue)
Converged ==
    /\ Debits # {}
    /\ LastDebit.req.channelID # ""
    /\ LastDebit.status = 201
    /\ LET A == LastDebit.req.amount
           X == LastDebit.req.channelAmount
           ref == LastDebit.req.reference
       IN  /\ Cardinality(WithReference(UserTxs, ref)) = 1
           /\ Cardinality(WithReference(ChannelTxs, ref)) = 1
           /\ Cardinality(WithReference(RevenueTxs, ref))
                  = (IF A > X THEN 1 ELSE 0)
           /\ \A k \in Credits : Available = log[k].req.amount - A
           /\ Balance(ChannelTxs, <<"channel", ":", LastDebit.req.channelID>>,
                      USD2) = -X
           /\ Balance(RevenueTxs, RevenueAccumulated, USD2) = A - X

\* C16: after a DebitWallet through a channel failed with its user leg
\* committed, the client repeating the identical request once the missing
\* ledgers exist is eventually answered 201, each ledger then holding one
\* transaction of the reference: user debited once, channel debited once,
\* revenue credited once.
C16_RetryConverges == PartialFailure ~> Converged

\* C16 happens: the debit failed twice after its user leg and then succeeded
\* with one transaction per ledger
C16_Witness ==
    /\ Converged
    /\ LastDebit.req.channelAmount < LastDebit.req.amount
    /\ \E k, m \in 2..Len(log) :
           /\ k < m
           /\ log[k].op = "debit" /\ log[k].code = "NOT_FOUND"
           /\ log[m].op = "debit" /\ log[m].code = "TRANSIENT"

\* the request with no Reference, no positive Amount or no dash in walletID
Invalid(w, req) ==
    \/ req.reference = ""
    \/ req.amount <= 0
    \/ \A k \in 1..Len(w) : w[k] # "-"

\* the step answers 400 VALIDATION and changes no ledger
Rejected ==
    /\ Answered
    /\ LastAfter.status = 400
    /\ LastAfter.code = "VALIDATION"
    /\ ledgers' = ledgers
    /\ inflight' = inflight

\* C17: a CreditWallet, DebitWallet, LienWallet or ReleaseLien with an empty
\* reference, an amount <= 0 or a walletId without '-' is answered 400
\* VALIDATION, not an error of the engine, and no ledger changes.
C17_ValidationBeforeLedger ==
    [][\A w \in AnyWalletIDs, req \in AnyRequests :
          /\ \/ creditWallet(w, req, "")
             \/ debitWallet(w, req, "")
             \/ lienWallet(w, req, "")
             \/ releaseLien(w, WithMode(req, "RELEASE_ONLY"), "")
          /\ Invalid(w, req)
          => Rejected]_vars

\* C17 happens: a request with Reference and a positive Amount was rejected
\* for its walletID without dash
C17_Witness ==
    /\ Len(log) > 0
    /\ Last.op \in {"credit", "debit", "lien", "release"}
    /\ Last.target = <<"u1USD">>
    /\ Last.req.amount > 0 /\ Last.req.reference # ""
    /\ Last.status = 400 /\ Last.code = "VALIDATION"
    /\ UserTxs = <<>>

\* the currency of an asset {currency}/{precision}
CurrencyOf(asset) == SubSeq(asset, 1, Len(asset) - 2)

\* the transactions of all ledgers
AllTxs ==
    UNION {{ledgers[n][k] : k \in 1..Len(ledgers[n])} : n \in DOMAIN ledgers}

\* C18: in every reachable state the asset of every committed posting, on any
\* ledger, has a currency present and enabled in the currency registry.
C18_RegisteredCurrencies ==
    \A t \in AllTxs :
        /\ CurrencyOf(t.script.asset) \in DOMAIN currencyRegistry
        /\ currencyRegistry[CurrencyOf(t.script.asset)].Enabled

\* the decimal digit n as it is printed
Digit(n) == <<"0", "1", "2", "3", "4", "5", "6", "7", "8", "9">>[n + 1]

\* C19: the asset of every committed posting whose currency is in the
\* registry carries the registry's precision of that currency (BTC/8, USD/2).
C19_RegistryPrecision ==
    \A t \in AllTxs :
        LET c == CurrencyOf(t.script.asset)
        IN  c \in DOMAIN currencyRegistry =>
                t.script.asset = c \o <<"/", Digit(currencyRegistry[c].Precision)>>

\* C20: a DebitWallet or ReleaseLien with channelID and a channelAmount <= 0
\* or above the amount is answered 400 VALIDATION and changes no ledger;
\* without channelID the channelAmount plays no part: the request is not
\* rejected for it and no channel or revenue leg is run.
C20_ChannelAmountValidation ==
    [][\A w \in AnyWalletIDs, req \in AnyRequests :
          \/ debitWallet(w, req, "")
          \/ releaseLien(w, WithMode(req, "RELEASE_ONLY"), "")
          => /\ /\ req.channelID # ""
                /\ req.channelAmount <= 0 \/ req.channelAmount > req.amount
                => Rejected
             /\ req.channelID = "" /\ ~Invalid(w, req)
                => /\ Answered
                   /\ LastAfter.code # "VALIDATION"
                   /\ LastAfter.channelTxID = 0 /\ LastAfter.revenueTxID = 0
                   /\ inflight' = inflight
                   /\ ChannelTxs' = ChannelTxs
                   /\ RevenueTxs' = RevenueTxs]_vars

\* C20 happens: a request with Reference, a positive Amount and channelID was
\* rejected for a channelAmount above its Amount
C20_Witness ==
    /\ Len(log) > 0
    /\ Last.op \in {"debit", "release"}
    /\ Last.target = U1Wallet
    /\ Last.req.amount > 0 /\ Last.req.reference # ""
    /\ Last.req.channelID = "c1"
    /\ Last.req.channelAmount > Last.req.amount
    /\ Last.status = 400 /\ Last.code = "VALIDATION"

\* the responses to createWallet(u, c) so far
WalletsCreated(u, c) ==
    {k \in 1..Len(log) :
        /\ log[k].op = "createWallet"
        /\ log[k].req.userID = u /\ log[k].req.currency = c}

\* C21: createWallet(userID, currency) changes no ledger; with a userID and
\* an enabled currency of the registry it answers walletID = userID-currency
\* with the same userID and currency, as every earlier call with these
\* inputs did; with an empty userID or currency or a currency the registry
\* lacks it answers 400 VALIDATION.
C21_CreateWalletDerives ==
    [][\A u \in AnyUsers, c \in AnyCurrencies :
          createWallet(u, c)
          => /\ Answered
             /\ ledgers' = ledgers /\ created' = created /\ inflight' = inflight
             /\ IF /\ u # <<>> /\ c # <<>> /\ c \in DOMAIN currencyRegistry
                   /\ currencyRegistry[c].Enabled
                THEN /\ LastAfter.status = 201
                     /\ LastAfter.walletID = u \o <<"-">> \o c
                     /\ LastAfter.userID = u
                     /\ LastAfter.currency = c
                     /\ \A k \in WalletsCreated(u, c) :
                            /\ log[k].status = 201
                            /\ log[k].walletID = LastAfter.walletID
                ELSE /\ LastAfter.status = 400
                     /\ LastAfter.code = "VALIDATION"
                     /\ \A k \in WalletsCreated(u, c) : log[k].status = 400]_vars

\* C21 happens: the wallet of u-2 in USD was created twice, and a wallet in
\* a currency the registry lacks was refused
C21_Witness ==
    /\ Len(log) = 3
    /\ WalletsCreated(<<"u", "-", "2">>, USD) = {1, 2}
    /\ log[1].walletID = <<"u", "-", "2", "-", "USD">>
    /\ log[2] = log[1]
    /\ WalletsCreated(<<"u1">>, XYZ) = {3}
    /\ log[3].status = 400 /\ log[3].code = "VALIDATION"

\* the transaction a step commits on the user ledger
Committed == ledgers'[<<"ledgertrack">>][Len(UserTxs) + 1]

Commits == Len(ledgers'[<<"ledgertrack">>]) = Len(UserTxs) + 1

\* C22: a walletID is split at its last '-': an operation on userID-currency,
\* for a userID with or without '-' and a currency without, that commits
\* posts on users:{userID}:wallets:{currency}:available and :lien; and an
\* otherwise valid operation is refused for its walletID exactly if the
\* walletID holds no '-'.
C22_SplitAtLastDash ==
    [][/\ \A o \in WalletOwners, req \in WalletRequests :
            LET u == o[1]
                c == o[2]
                w == u \o <<"-">> \o c
                available == <<"users", ":">> \o u \o <<":", "wallets", ":">>
                                 \o c \o <<":", "available">>
                lien == <<"users", ":">> \o u \o <<":", "wallets", ":">>
                            \o c \o <<":", "lien">>
            IN  /\ creditWallet(w, req, "") /\ Commits
                   => Committed.script.destination = available
                /\ debitWallet(w, req, "") /\ Commits
                   => Committed.script.source = available
                /\ lienWallet(w, req, "") /\ Commits
                   => /\ Committed.script.source = available
                      /\ Committed.script.destination = lien
                /\ releaseLien(w, req, "") /\ Commits
                   => /\ Committed.script.source = lien
                      /\ Committed.script.destination = available
       /\ \A w \in DerivedWalletIDs, req \in WalletRequests :
            \/ creditWallet(w, req, "")
            \/ debitWallet(w, req, "")
            \/ lienWallet(w, req, "")
            \/ releaseLien(w, req, "")
            => (LastAfter.code = "VALIDATION"
                    <=> \A k \in 1..Len(w) : w[k] # "-")]_vars

\* C22 happens: a lien on the wallet of u-2 moved funds between the accounts
\* of user u-2
C22_Witness ==
    /\ Len(UserTxs) = 3
    /\ Last.op = "release" /\ Last.status = 201
    /\ Last.target = <<"u", "-", "2", "-", "USD">>
    /\ UserTxs[3].script.source =
           <<"users", ":", "u", "-", "2", ":", "wallets", ":", "USD", ":", "lien">>
    /\ UserTxs[3].script.destination =
           <<"users", ":", "u", "-", "2", ":", "wallets", ":", "USD", ":", "available">>

\* what a committed transaction of wallet u1-USD did, read from its accounts
TxKind(t) ==
    CASE t.script.source = SystemUSD                            -> "credit"
      [] t.script.destination = SystemUSD                       -> "debit"
      [] t.script.destination = U1Lien                          -> "lien"
      [] t.script.source = U1Lien /\ t.script.destination = <<"world">>
                                                                -> "PAY"
      [] OTHER                                                  -> "release"

\* a committed transaction of the user ledger carries the reference of the
\* request, and did something else or moved another amount
ReferenceTaken(kind, req) ==
    \E i \in 1..Len(UserTxs) :
        /\ UserTxs[i].reference = req.reference
        /\ TxKind(UserTxs[i]) # kind \/ UserTxs[i].script.amount # req.amount

\* the step answers 409 REFERENCE_CONFLICT and changes no ledger
Conflict ==
    /\ Answered
    /\ LastAfter.status = 409
    /\ LastAfter.code = "REFERENCE_CONFLICT"
    /\ ledgers' = ledgers
    /\ inflight' = inflight

\* C23: a wallet operation (without Idempotency-Key) whose reference is that
\* of a committed transaction of the user ledger that did something else (a
\* different operation or amount) is answered 409 REFERENCE_CONFLICT; no
\* ledger changes and no channel or revenue leg is started.
C23_ReferenceConflict ==
    [][\A w \in WalletIDs, req \in PlainRequests \cup ChannelRequests :
          /\ creditWallet(w, req, "") /\ ReferenceTaken("credit", req)
             => Conflict
          /\ debitWallet(w, req, "") /\ ReferenceTaken("debit", req)
             => Conflict
          /\ lienWallet(w, req, "") /\ ReferenceTaken("lien", req)
             => Conflict
          /\ \A mode \in Modes :
                releaseLien(w, WithMode(req, mode), "")
                    /\ ReferenceTaken(IF mode = "PAY" THEN "PAY" ELSE "release", req)
                => Conflict]_vars

\* C23 happens: the release of a lien under the reference of the LienWallet
\* that created it was refused, and the lien is still held
C23_Witness ==
    /\ Len(log) = 3
    /\ log[2].op = "lien" /\ log[2].status = 201
    /\ Last.op = "release" /\ Last.req.reference = log[2].req.reference
    /\ Last.req.amount = log[2].req.amount
    /\ Last.status = 409 /\ Last.code = "REFERENCE_CONFLICT"
    /\ Lien = log[2].req.amount

\* the payloads of two debits diverge
Divergent(a, b) ==
    \/ a.amount # b.amount
    \/ a.channelID # b.channelID
    \/ a.channelAmount # b.channelAmount

\* C24: a DebitWallet answered after a successful debit of the same
\* reference whose payload (amount, channelID, channelAmount) diverges from
\* its own is answered 409 REFERENCE_CONFLICT, and is never taken for that
\* debit's transaction and sent on to the channel and revenue ledgers.
C24_DivergentDebit ==
    /\ \A i, k \in 1..Len(log) :
          /\ i < k
          /\ log[i].op = "debit" /\ log[i].status = 201
          /\ log[k].op = "debit"
          /\ log[k].req.reference = log[i].req.reference
          /\ Divergent(log[i].req, log[k].req)
          => log[k].status = 409 /\ log[k].code = "REFERENCE_CONFLICT"
    /\ \A i \in 1..Len(log), k \in 1..Len(inflight) :
          ~ /\ log[i].op = "debit" /\ log[i].status = 201
            /\ inflight[k].op = "debit"
            /\ inflight[k].req.reference = log[i].req.reference
            /\ Divergent(log[i].req, inflight[k].req)
            /\ inflight[k].txid = log[i].txid

\* the responses that returned a transaction committed under the key
ByKey(ik) ==
    {i \in 1..Len(log) : log[i].ik = ik /\ log[i].status = 201
                            /\ \E k \in 1..Len(UserTxs) :
                                   UserTxs[k].ik = ik /\ UserTxs[k].id = log[i].txid}

\* the step refuses the key and changes no ledger
KeyConflict ==
    /\ Answered
    /\ LastAfter.code = "IDEMPOTENCY_KEY_CONFLICT"
    /\ ledgers' = ledgers
    /\ inflight' = inflight

\* the step returns the transaction of response i and posts nothing
KeyReplay(i) ==
    /\ ledgers' = ledgers
    /\ IF Answered THEN LastAfter.status = 201 /\ LastAfter.txid = log[i].txid
       ELSE /\ Len(inflight') = Len(inflight) + 1
            /\ inflight'[Len(inflight')].txid = log[i].txid

\* C25: a credit or debit under an Idempotency-Key that an earlier request of
\* another payload (operation, amount, reference, channelID or channelAmount)
\* committed a transaction under fails with IDEMPOTENCY_KEY_CONFLICT and no
\* ledger changes; under the key and payload of an earlier request it
\* returns that request's transaction and posts nothing.
C25_IdempotencyKey ==
    [][\A w \in WalletIDs, req \in KeyedRequests \cup KeyedChannelRequests :
          /\ creditWallet(w, req, "k1")
             => \A i \in ByKey("k1") :
                    IF log[i].op = "credit" /\ log[i].req = req
                    THEN KeyReplay(i) ELSE KeyConflict
          /\ debitWallet(w, req, "k1")
             => \A i \in ByKey("k1") :
                    IF log[i].op = "debit" /\ log[i].req = req
                    THEN KeyReplay(i) ELSE KeyConflict]_vars

\* the transactions of the legs: channel:c1 -> world on channels-USD,
\* world -> revenue:accumulated on revenue-USD
ChannelLegTxs ==
    {k \in 1..Len(ChannelTxs) :
        ChannelTxs[k].script.source = <<"channel", ":", "c1">>}

RevenueLegTxs ==
    {k \in 1..Len(RevenueTxs) :
        RevenueTxs[k].script.destination = RevenueAccumulated}

\* every leg transaction follows the transaction of the leg before it
LegsFollow ==
    /\ \A k \in RevenueLegTxs :
           \E c \in ChannelLegTxs :
               ChannelTxs[c].reference = RevenueTxs[k].reference
    /\ \A c \in ChannelLegTxs :
           WithReference(UserTxs, ChannelTxs[c].reference) # {}

\* C30: the legs of a DebitWallet or ReleaseLien through a channel run in
\* the order user ledger, channel ledger, revenue ledger: a step posts on
\* one ledger only, a channel-leg posting is made when the user ledger holds
\* a transaction of its reference, a revenue-leg posting when the channel
\* ledger holds a channel-leg transaction of its reference; so in every
\* state a revenue-leg transaction of reference R has a channel-leg
\* transaction of R, which has a user-ledger transaction of R.
C30_LegOrder ==
    /\ []LegsFollow
    /\ [][/\ Len(ChannelTxs') > Len(ChannelTxs)
             /\ ChannelTxs'[Len(ChannelTxs')].script.source = <<"channel", ":", "c1">>
             => /\ WithReference(UserTxs, ChannelTxs'[Len(ChannelTxs')].reference) # {}
                /\ UserTxs' = UserTxs /\ RevenueTxs' = RevenueTxs
          /\ Len(RevenueTxs') > Len(RevenueTxs)
             => /\ \E c \in ChannelLegTxs :
                       ChannelTxs[c].reference = RevenueTxs'[Len(RevenueTxs')].reference
                /\ UserTxs' = UserTxs /\ ChannelTxs' = ChannelTxs
          /\ Len(UserTxs') > Len(UserTxs)
             => ChannelTxs' = ChannelTxs /\ RevenueTxs' = RevenueTxs]_vars

\* C30 happens: a release through the channel posted on the three ledgers
\* under one reference
C30_Witness ==
    /\ Len(log) > 0
    /\ Last.op = "release" /\ Last.status = 201
    /\ Last.txid > 0 /\ Last.channelTxID > 0 /\ Last.revenueTxID > 0
    /\ UserTxs[Last.txid].reference = Last.req.reference
    /\ ChannelTxs[Last.channelTxID].reference = Last.req.reference
    /\ RevenueTxs[Last.revenueTxID].reference = Last.req.reference
    /\ Last.channelTxID \in ChannelLegTxs
    /\ Last.revenueTxID \in RevenueLegTxs

\* the transaction ids of the page of response k
PageIDs(k) == [i \in 1..Len(log[k].data) |-> log[k].data[i].ledger_tx_id]

\* the ids of a page rise, or fall, strictly
Ascending(ids) == \A i \in 1..Len(ids) - 1 : ids[i] < ids[i + 1]

Descending(ids) == \A i \in 1..Len(ids) - 1 : ids[i] > ids[i + 1]

\* response k is the page that follows the page of response i
Follows(i, k) ==
    /\ i < k
    /\ log[k].op = log[i].op /\ log[k].target = log[i].target
    /\ log[i].next # NoCursor
    /\ log[k].query = [log[i].query EXCEPT !.cursor = log[i].next]

\* C26: the pages of getWalletStatement hold the wallet's transactions in
\* strictly ascending order of transaction id, those of getWalletHistory in
\* strictly descending order, within a page and from a page to the page
\* that follows it; a page asked without pageSize holds 15 entries (fewer
\* only when it is the last), and no page holds more than 100.
C26_PageOrder ==
    \A k \in Reads :
        LET ids == PageIDs(k)
        IN  /\ log[k].op = "statement" => Ascending(ids)
            /\ log[k].op = "history" => Descending(ids)
            /\ Len(ids) <= 100
            /\ log[k].query.pageSize = 0 =>
                   /\ Len(ids) <= 15
                   /\ log[k].next # NoCursor => Len(ids) = 15
            /\ \A i \in Reads :
                   Follows(i, k) /\ ids # <<>> =>
                       LET before == PageIDs(i)
                       IN  IF log[k].op = "statement"
                           THEN before[Len(before)] < ids[1]
                           ELSE before[Len(before)] > ids[1]

\* C26 happens: a history asked with a pageSize above the maximum returned
\* the newest 100 of 101 transactions, and the page after it the oldest
C26_Witness ==
    \E i, k \in Reads :
        /\ Follows(i, k)
        /\ log[i].op = "history"
        /\ log[i].query.pageSize > 100
        /\ Len(log[i].data) = 100
        /\ PageIDs(i)[1] = 101 /\ PageIDs(i)[100] = 2
        /\ PageIDs(k) = <<1>>
        /\ log[k].next = NoCursor

RECURSIVE Traversals(_)
\* the ids returned by following the cursors from response i to a last page
Traversals(i) ==
    IF log[i].next = NoCursor THEN {PageIDs(i)}
    ELSE UNION {{PageIDs(i) \o t : t \in Traversals(k)} :
                   k \in {m \in Reads : Follows(i, m)}}

\* the transactions of wallet u1-USD
OfWallet(tx) ==
    \/ tx.script.source \in {U1Available, U1Lien}
    \/ tx.script.destination \in {U1Available, U1Lien}

\* the transactions of the wallet, within the endTime of the query, that
\* were committed when response i was given
CommittedBefore(i) ==
    {log[k].txid : k \in {m \in Writes : m < i /\ log[m].status = 201}}
        \cap {id \in 1..Len(UserTxs) :
                 /\ OfWallet(UserTxs[id])
                 /\ log[i].query.endTime # 0 => id <= log[i].query.endTime}

\* C27: the pages of a history or statement followed by their cursors from
\* a first page to a last one, whatever was committed on the wallet in
\* between, hold every transaction of the wallet committed before the first
\* page was read exactly once, and no transaction twice: a lien, which
\* touches the available and the lien account, is one entry.
C27_NoDuplicatesNoGaps ==
    \A i \in Reads :
        log[i].query.cursor = NoCursor /\ log[i].status = 200 =>
            \A t \in Traversals(i) :
                /\ \A id \in CommittedBefore(i) :
                       Cardinality({j \in 1..Len(t) : t[j] = id}) = 1
                /\ \A j, m \in 1..Len(t) : t[j] = t[m] => j = m

\* C27 happens: two pages of a statement with a commit between them; the
\* first holds the credit, the second the lien committed before the first
\* page was read
C27_Witness ==
    \E i, k \in Reads :
        /\ Follows(i, k)
        /\ log[i].op = "statement" /\ log[i].query.cursor = NoCursor
        /\ log[i].query.endTime = 0
        /\ k > i + 1
        /\ log[i + 1].status = 201
        /\ CommittedBefore(i) = {1, 2}
        /\ UserTxs[2].script.destination = U1Lien
        /\ PageIDs(i) = <<1>>
        /\ PageIDs(k) = <<2>>
        /\ log[k].next = NoCursor

\* the operation of the request that committed transaction id
CommittedBy(id) ==
    log[CHOOSE k \in Writes : log[k].status = 201 /\ log[k].txid = id].op

\* entry e carries the balances of wallet u1-USD as transaction
\* e.ledger_tx_id left them
AfterCommit(e) ==
    /\ e.balance_after
           = Balance(SubSeq(UserTxs, 1, e.ledger_tx_id), U1Available, USD2)
    /\ e.lien_after = Balance(SubSeq(UserTxs, 1, e.ledger_tx_id), U1Lien, USD2)

C29_StatementReproducible ==
    \A i, k \in Reads :
        /\ log[i].op = "statement" /\ log[k].op = "statement"
        /\ log[i].target = log[k].target
        /\ log[i].query = log[k].query
        => log[i].data = log[k].data

\* the channel ledger would take the channel leg of the in-flight request f:
\* it exists, and holds the request's reference under no other script
ChannelLegAccepted(f) ==
    /\ <<"channels", "-", "USD">> \in created
    /\ \A k \in 1..Len(ChannelTxs) :
           ChannelTxs[k].reference = f.req.reference
           => /\ ChannelTxs[k].script.source = <<"channel", ":", "c1">>
              /\ ChannelTxs[k].script.amount = f.req.channelAmount

\* C31: the channel leg of a DebitWallet or ReleaseLien whose channelAmount
\* is its amount ends the request: the revenue ledger is not written, and
\* when the channel ledger takes the leg the response is a success with the
\* ids of the user and channel transactions and none of a revenue
\* transaction, whether the revenue ledger exists or not.
C31_NoRevenueLeg ==
    /\ [](\A i \in 1..Len(inflight) :
             inflight[i].req.channelAmount = inflight[i].req.amount
             => inflight[i].pc = "channel")
    /\ [][\A i \in 1..Len(inflight) :
             /\ debitChannelLeg(i) \/ releaseChannelLeg(i)
             /\ inflight[i].req.channelAmount = inflight[i].req.amount
             => /\ Answered
                /\ RevenueTxs' = RevenueTxs
                /\ UserTxs' = UserTxs
                /\ ChannelLegAccepted(inflight[i])
                   => /\ LastAfter.status = 201
                      /\ LastAfter.txid = inflight[i].txid
                      /\ LastAfter.channelTxID > 0
                      /\ LastAfter.revenueTxID = 0]_vars

\* C31 happens: a debit whose channelAmount is its amount succeeded on the
\* user and channel ledgers while the revenue ledger did not exist
C31_Witness ==
    /\ Len(log) > 0
    /\ Last.op = "debit" /\ Last.status = 201
    /\ Last.req.channelID = "c1"
    /\ Last.req.channelAmount = Last.req.amount
    /\ Last.txid > 0 /\ Last.channelTxID > 0 /\ Last.revenueTxID = 0
    /\ <<"revenue", "-", "USD">> \notin created
    /\ RevenueTxs = <<>>

\* C32: ReleaseLien runs the channel and revenue legs only in mode PAY: a
\* leg of a release whose mode is not PAY commits nothing on the channel
\* ledger and nothing on the revenue ledger.
C32_LegsOnlyOnPay ==
    [][\A i \in 1..Len(inflight) :
          /\ releaseChannelLeg(i) \/ releaseRevenueLeg(i)
          /\ inflight[i].req.mode # "PAY"
          => /\ ChannelTxs' = ChannelTxs
             /\ RevenueTxs' = RevenueTxs]_vars

\* the balance of channel:c1 on the channel ledger
ChannelBalance == Balance(ChannelTxs, <<"channel", ":", "c1">>, USD2)

\* C33: the channel leg of a DebitWallet or ReleaseLien never answers
\* INSUFFICIENT_FUND; when the channel ledger takes the leg it commits
\* whatever the balance of channel:{channelId}, which goes down by
\* channelAmount (below zero if need be), and the request goes on: it is
\* answered with a success or proceeds to its revenue leg.
C33_ChannelOverdraft ==
    [][\A i \in 1..Len(inflight) :
          debitChannelLeg(i) \/ releaseChannelLeg(i)
          => /\ Answered => LastAfter.code # "INSUFFICIENT_FUND"
             /\ ChannelLegAccepted(inflight[i])
                => /\ \/ Answered /\ LastAfter.status = 201
                      \/ /\ Len(inflight') = Len(inflight)
                         /\ inflight'[i].pc = "revenue"
                         /\ inflight'[i].channelTxID > 0
                   /\ WithReference(ChannelTxs, inflight[i].req.reference) = {}
                      => /\ Len(ChannelTxs') = Len(ChannelTxs) + 1
                         /\ ChannelBalance' =
                                ChannelBalance - inflight[i].req.channelAmount]_vars

\* C33 happens: a debit through a channel that was never credited succeeded
\* and left channel:c1 negative
C33_Witness ==
    /\ Len(log) > 0
    /\ Last.op = "debit" /\ Last.status = 201
    /\ Last.channelTxID > 0
    /\ \A k \in 1..Len(log) : log[k].op # "creditChannel"
    /\ ChannelBalance < 0

\* C34: the success response of a DebitWallet or ReleaseLien carries a
\* warning exactly when it went through a channel and the channel leg left
\* channel:{channelId} negative: no warning when the post-commit balance is
\* zero or more, none without channelID.
C34_WarningIffNegative ==
    \A k \in 1..Len(log) :
        log[k].op \in {"debit", "release"} /\ log[k].status = 201
        => (log[k].warning # ""
            <=> /\ log[k].req.channelID # ""
                /\ log[k].channelTxID > 0
                /\ PostCommitBalance(ChannelTxs, log[k].channelTxID,
                                     <<"channel", ":", "c1">>, USD2) < 0)

\* C35: ledgers are created on first use: a channel leg or a channel credit
\* that finds no channels-USD ledger, and a revenue leg that finds no
\* revenue-USD ledger, create the ledger and commit on it; no DebitWallet,
\* ReleaseLien or channel credit is answered NOT_FOUND.
C35_CreatedOnFirstUse ==
    [][/\ \A i \in 1..Len(inflight) :
             /\ debitChannelLeg(i) \/ releaseChannelLeg(i)
             /\ <<"channels", "-", "USD">> \notin created
             => /\ <<"channels", "-", "USD">> \in created'
                /\ Len(ChannelTxs') = Len(ChannelTxs) + 1
       /\ \A i \in 1..Len(inflight) :
             /\ debitRevenueLeg(i) \/ releaseRevenueLeg(i)
             /\ <<"revenue", "-", "USD">> \notin created
             => /\ <<"revenue", "-", "USD">> \in created'
                /\ Len(RevenueTxs') = Len(RevenueTxs) + 1
       /\ Answered /\ LastAfter.op \in {"debit", "release", "creditChannel"}
          => LastAfter.code # "NOT_FOUND"]_vars

RECURSIVE Precedes(_, _)
\* response k is a page reached from the page of response i by its cursors
Precedes(i, k) ==
    \/ Follows(i, k)
    \/ \E m \in Reads : Follows(i, m) /\ m < k /\ Precedes(m, k)

\* the ids on the page of response k
OnPage(k) == {log[k].data[j].ledger_tx_id : j \in 1..Len(log[k].data)}

\* the transactions of the wallet committed after page i was read and
\* before page k was
CommittedBetween(i, k) == CommittedBefore(k) \ CommittedBefore(i)

\* a last history page holds what was committed since the page before it
HistoryShowsNewWrites ==
    \A i, k \in Reads :
        /\ log[k].op = "history" /\ log[k].status = 200
        /\ Follows(i, k)
        /\ log[k].next = NoCursor
        => CommittedBetween(i, k) \subseteq OnPage(k)

\* a statement page holds nothing committed since an earlier page was read
StatementHidesNewWrites ==
    \A i, k \in Reads :
        /\ log[k].op = "statement" /\ log[k].status = 200
        /\ Precedes(i, k)
        => CommittedBetween(i, k) \cap OnPage(k) = {}

\* C36: the transactions committed on a wallet while a client is part-way
\* through its pages appear on the pages the client reads next when it
\* pages through GetWalletHistory, and on none of them when it pages through
\* GetWalletStatement.
C36_MidPaginationWrites ==
    HistoryShowsNewWrites /\ StatementHidesNewWrites

RECURSIVE Held(_, _)
\* the sum of the balances in asset of the accounts on the user ledger
Held(accounts, asset) ==
    IF accounts = {} THEN 0
    ELSE LET a == CHOOSE x \in accounts : TRUE
         IN  Balance(UserTxs, a, asset) + Held(accounts \ {a}, asset)

\* the available and lien accounts of the wallets of currency c
WalletAccounts(c) ==
    {a \in Accounts(UserTxs) : IsWalletAccount(a) /\ a[Len(a) - 2] = c}

\* C37: in every reachable state and for every currency, the negated
\* balance of system:control:{currency} on the user ledger is the sum of the
\* available and lien balances of all the wallets of that currency, after
\* any credits, liens and releases in any mode.
C37_SystemMirrorsWallets ==
    \A c \in {"USD", "BTC"} :
        0 - Balance(UserTxs, <<"system", ":", "control", ":", c>>, <<c, "/", "2">>)
            = Held(WalletAccounts(c), <<c, "/", "2">>)

\* the accounts whose balance on ledger n the step changes
Changed(n) ==
    {a \in Accounts(ledgers'[n]) :
        \E asset \in Assets(ledgers'[n]) :
            Balance(ledgers'[n], a, asset) # Balance(ledgers[n], a, asset)}

\* the step changes, at most, the accounts an operation on the wallet of
\* user u and currency c through channel ch may change, in the asset of c
Frame(u, c, ch) ==
    /\ \A n \in DOMAIN ledgers :
           Changed(n) \subseteq
               IF n = <<"ledgertrack">>
               THEN {<<"users", ":">> \o u \o <<":", "wallets", ":", c, ":", "available">>,
                     <<"users", ":">> \o u \o <<":", "wallets", ":", c, ":", "lien">>,
                     <<"system", ":", "control", ":", c>>, <<"world">>}
               ELSE IF n = <<"channels", "-", c>> /\ ch # ""
               THEN {<<"channel", ":", ch>>, <<"world">>}
               ELSE IF n = <<"revenue", "-", c>> /\ ch # ""
               THEN {<<"revenue", ":", "accumulated">>, <<"world">>}
               ELSE {}
    /\ \A n \in DOMAIN ledgers :
           \A a \in Accounts(ledgers'[n]), asset \in Assets(ledgers'[n]) :
               asset # <<c, "/", "2">>
               => Balance(ledgers'[n], a, asset) = Balance(ledgers[n], a, asset)

\* the owners of the wallets
FrameOwners ==
    {[w |-> <<"u1", "-", "USD">>, u |-> <<"u1">>, c |-> "USD"],
     [w |-> <<"u", "-", "2", "-", "USD">>, u |-> <<"u", "-", "2">>, c |-> "USD"],
     [w |-> <<"u1", "-", "BTC">>, u |-> <<"u1">>, c |-> "BTC"]}

\* C38: a wallet operation on the wallet of a user and a currency, in each
\* of its steps and whether it succeeds or fails, changes no balance but
\* those of the wallet's available and lien accounts, system:control of the
\* currency and world on the user ledger, channel:{channelID} and world on
\* the channel ledger of the currency, revenue:accumulated and world on the
\* revenue ledger of the currency: every other wallet and every account of
\* another currency keeps its balance.
C38_Frame ==
    [][\A o \in FrameOwners :
          /\ \A req \in IF Issued < MaxFrameOps
                        THEN FrameRequests(RefPool[Issued + 1]) ELSE {} :
                 \/ creditWallet(o.w, WithMode(req, ""), "")
                 \/ lienWallet(o.w, WithMode(req, ""), "")
                 \/ debitWallet(o.w, WithMode(req, ""), "")
                 \/ releaseLien(o.w, req, "")
                 => Frame(o.u, o.c, req.channelID)
          /\ \A i \in 1..Len(inflight) :
                 /\ inflight[i].walletID = o.w
                 /\ \/ debitChannelLeg(i) \/ debitRevenueLeg(i)
                    \/ releaseChannelLeg(i) \/ releaseRevenueLeg(i)
                    \/ legFails(i)
                 => Frame(o.u, o.c, inflight[i].req.channelID)]_vars

\* C38 happens: the wallets u1-USD and u-2-USD hold funds and a debit of
\* u1-BTC through channel c1 has committed its three legs
C38_Witness ==
    /\ Len(log) > 0
    /\ Last.op = "debit" /\ Last.status = 201
    /\ Last.target = <<"u1", "-", "BTC">>
    /\ Last.channelTxID > 0 /\ Last.revenueTxID > 0
    /\ Available > 0
    /\ Len(ledgers[<<"channels", "-", "BTC">>]) > 0
    /\ Len(ledgers[<<"revenue", "-", "BTC">>]) > 0

====
